---- MODULE Spec2Model ----
(***************************************************************************)
(* A model of three parts of pymc.                                         *)
(*                                                                         *)
(* The order-statistic part of the log-probability engine:                 *)
(*   - the recognizers find_measurable_max / find_measurable_max_neg       *)
(*     (src/pymc/logprob/order.py), applied by the rewriter to the Max     *)
(*     node of a graph;                                                    *)
(*   - the density rules max_logprob, max_logprob_discrete,                *)
(*     max_neg_logprob and discrete_max_neg_logprob, evaluated in an exact *)
(*     model of log-space arithmetic (-inf, NaN, +inf and logs of positive *)
(*     rationals);                                                         *)
(*   - check_potential_measurability (src/pymc/logprob/utils.py), the      *)
(*     depth-first ancestor walk.                                          *)
(*                                                                         *)
(* The variable transforms (src/pymc3/distributions/transforms.py): Log,   *)
(* Interval, SumTo1, StickBreaking, Circular, CholeskyCovPacked and Chain, *)
(* with forward, backward and jacobian_det applied to small tensors of     *)
(* rationals, logs of rationals and rational multiples of pi.              *)
(*                                                                         *)
(* The removal of parameter checks (src/pymc/logprob/utils.py):            *)
(* InnerGraphRewriter.apply and local_remove_check_parameter on nodes with *)
(* inner graphs.                                                           *)
(***************************************************************************)
EXTENDS Integers, Sequences, FiniteSets, TLC

VARIABLES
    has_rv_map,       \* fgraph carries the preserve_rv_mappings feature
    grantable,        \* variables for which the feature accepts a request
    node,             \* the Apply node the rewriter is visiting
    applied,          \* the last rule application: rule, node given, result
    needs_measuring,  \* variables whose request was accepted so far
    phase,            \* "rewriting", "raised" (a rule raised), or "off"
    hash_seed,        \* PYTHONHASHSEED of the process the rewriter runs in
    dist,             \* base distribution of the density rules (pmf table)
    n_draws,          \* base_rv.size, the number of draws
    size_static,      \* base_rv.size is statically determinable
    value,            \* the observed value handed to a density rule
    density,          \* the last density rule evaluation
    raised,           \* the density rule whose call raised, "" when none did
    graph,            \* variables of the graph walked by the analyzer
    valued_rvs,       \* container of valued variables
    walk_inputs,      \* candidate inputs of check_potential_measurability
    walked,           \* result of the analyzer call
    transform,        \* the transform object whose method is called
    rv,               \* rv_var: the random variable the value belongs to
    arg,              \* rv_value: the tensor handed to the method
    method,           \* the method called last, "" before any call
    returned,         \* what that call returned
    rw_node,          \* the node handed to the check-removing rewrite
    rw_call,          \* the function called on it last, "" before any call
    rw_result         \* what that call returned or raised

vars == <<has_rv_map, grantable, node, applied, needs_measuring, phase,
          hash_seed,
          dist, n_draws, size_static, value, density, raised,
          graph, valued_rvs, walk_inputs, walked,
          transform, rv, arg, method, returned,
          rw_node, rw_call, rw_result>>

rewriteVars ==
    <<has_rv_map, grantable, node, applied, needs_measuring, phase, hash_seed>>
densityVars == <<dist, n_draws, size_static, value, density, raised>>
walkVars == <<graph, valued_rvs, walk_inputs, walked>>
transformVars == <<transform, rv, arg, method, returned>>
innerVars == <<rw_node, rw_call, rw_result>>

(***************************************************************************)
(* Bounds of the model.                                                    *)
(***************************************************************************)
MaxNdim == 2
MaxParams == 2

\* first distribution parameter among a RandomVariable node's inputs
\* (rng, size, dtype, *params): base_var.owner.inputs[3:]
ParamStart == 3

(***************************************************************************)
(* Graph variables and Apply nodes.                                        *)
(***************************************************************************)
\* dtype names are character sequences, so that str.startswith is computed
DtInt64 == <<"i", "n", "t", "6", "4">>
DtInt8 == <<"i", "n", "t", "8">>
DtUint8 == <<"u", "i", "n", "t", "8">>
DtFloat64 == <<"f", "l", "o", "a", "t", "6", "4">>
DtNone == <<>>
RVDtypes == {DtInt64, DtInt8, DtUint8, DtFloat64}
IntegerDtypes == {DtInt64, DtInt8, DtUint8}

MakeOp(class, ndim_supp, dtype, scalar_op, axis) ==
    [class |-> class, ndim_supp |-> ndim_supp, dtype |-> dtype,
     scalar_op |-> scalar_op, axis |-> axis]

NoOp == MakeOp("None", 0, DtNone, "", <<>>)
NoOwner == [op |-> NoOp, inputs |-> <<>>]

\* a variable: its producing Apply node (NoOwner for a graph input), its
\* rank, and its value when it is a scalar constant
Leaf(ndim) == [owner |-> NoOwner, ndim |-> ndim, const |-> <<>>]
Constant(c) == [owner |-> NoOwner, ndim |-> 0, const |-> <<c>>]
OutputOf(apply, ndim) == [owner |-> apply, ndim |-> ndim, const |-> <<>>]

RandomVariableOp(ndim_supp, dtype) ==
    MakeOp("RandomVariable", ndim_supp, dtype, "", <<>>)
ElemwiseOp(scalar_op) == MakeOp("Elemwise", 0, DtNone, scalar_op, <<>>)
OtherOp == MakeOp("Subtensor", 0, DtNone, "", <<>>)
\* Max(axis) and its subclasses keep the axes given, in the order given
MaxOp(class, axis) == MakeOp(class, 0, DtNone, "", axis)

\* the Max class and its four subclasses (order.py:62, 69, 276, 284)
MaxClasses == {"Max", "MeasurableMax", "MeasurableMaxDiscrete",
               "MeasurableMaxNeg", "MeasurableDiscreteMaxNeg"}
MarkerClasses == MaxClasses \ {"Max"}

\* isinstance(op, cls): no marker class derives from another marker class
IsInstance(op, class) ==
    \/ op.class = class
    \/ class = "Max" /\ op.class \in MaxClasses

\* MeasurableVariable.register(...) (order.py:66, 73, 281, 288); a
\* RandomVariable is measurable as well
IsMeasurableClass(class) == class \in MarkerClasses \cup {"RandomVariable"}

HasOwner(var) == var.owner.op.class # "None"

\* x drawn by a RandomVariable op: inputs are rng, size, dtype, *params
RVVar(ndim, ndim_supp, dtype, paramRanks) ==
    OutputOf([op |-> RandomVariableOp(ndim_supp, dtype),
              inputs |-> <<Leaf(0), Leaf(1), Constant(0)>>
                         \o [i \in 1..Len(paramRanks) |-> Leaf(paramRanks[i])]],
             ndim)

\* -x as the rewriter sees it: mul(x, -1) or mul(-1, x)
NegVar(x, constFirst) ==
    OutputOf([op |-> ElemwiseOp("Mul"),
              inputs |-> IF constFirst THEN <<Constant(-1), x>>
                         ELSE <<x, Constant(-1)>>],
             x.ndim)

ExpVar(x) == OutputOf([op |-> ElemwiseOp("Exp"), inputs |-> <<x>>], x.ndim)
ScaledVar(x) ==
    OutputOf([op |-> ElemwiseOp("Mul"), inputs |-> <<x, Constant(2)>>], x.ndim)
SubtensorVar(x) == OutputOf([op |-> OtherOp, inputs |-> <<x>>], x.ndim)

MaxNode(class, axis, x) == [op |-> MaxOp(class, axis), inputs |-> <<x>>]
NoNode == [op |-> NoOp, inputs |-> <<>>]
NoneVar == [owner |-> NoOwner, ndim |-> -1, const |-> <<>>]

StartsWith(s, prefix) ==
    /\ Len(s) >= Len(prefix)
    /\ SubSeq(s, 1, Len(prefix)) = prefix

(***************************************************************************)
(* Collaborators of the recognizers.                                       *)
(***************************************************************************)
\* PreserveRVMappings.request_measurable(vars): the variables of vars the
\* feature accepts; an empty answer is a refusal
RequestMeasurable(fgraph, vs) ==
    SelectSeq(vs, LAMBDA v : v \in fgraph.grantable)

\* find_negated_var(var): the variable that var multiplies by the constant
\* -1, or None when var is not such a product
find_negated_var(var) ==
    IF ~(HasOwner(var) /\ IsInstance(var.owner.op, "Elemwise")
         /\ var.owner.op.scalar_op = "Mul" /\ Len(var.owner.inputs) = 2)
    THEN NoneVar
    ELSE IF var.owner.inputs[2].const = <<-1>> THEN var.owner.inputs[1]
    ELSE IF var.owner.inputs[1].const = <<-1>> THEN var.owner.inputs[2]
    ELSE NoneVar

(***************************************************************************)
(* The recognizers (order.py).  A result is what the call does: it returns *)
(* None, returns replacement outputs, or raises; requests lists the        *)
(* request_measurable calls made on the way, each with its answer.         *)
(***************************************************************************)
Declined(requests) ==
    [kind |-> "none", outputs |-> <<>>, requests |-> requests]
Replaced(outputs, requests) ==
    [kind |-> "replace", outputs |-> outputs, requests |-> requests]
Raised(requests) ==
    [kind |-> "raise", outputs |-> <<>>, requests |-> requests]

Request(fgraph, vs) == [vars |-> vs, granted |-> RequestMeasurable(fgraph, vs)]

\* isinstance(node.op, MeasurableMax), order.py:82
AlreadyMeasurableMax(op) == IsInstance(op, "MeasurableMax")

\* isinstance(node.op, MeasurableMaxNeg), order.py:298
AlreadyMeasurableMaxNeg(op) == IsInstance(op, "MeasurableMaxNeg")

\* isinstance(owner.op, RandomVariable) and owner.op.ndim_supp == 0
\* (order.py:94 and 314)
UnivariateRVAnySupport(owner) == IsInstance(owner.op, "RandomVariable")
UnivariateAnyOp(owner) == owner.op.ndim_supp = 0
UnivariateRV(owner) ==
    IsInstance(owner.op, "RandomVariable") /\ owner.op.ndim_supp = 0

\* owner.inputs[3:], order.py:98 and 318
DistParamsFromSize(owner) == SubSeq(owner.inputs, 2, Len(owner.inputs))
DistParams(owner) == SubSeq(owner.inputs, ParamStart + 1, Len(owner.inputs))

\* the loop over params: some parameter has params.type.ndim != 0
HasNonScalarParam(owner) ==
    \E i \in 1..Len(DistParams(owner)) : DistParams(owner)[i].ndim # 0

\* set(node.op.axis), order.py:103 and 323
set(axis) == {axis[i] : i \in DOMAIN axis}

\* hash(i) in a process started with hash seed seed.  The seed salts the
\* hashes of str and bytes; the hash of a small non-negative int is the int
\* itself under every seed.
hash_salted(i, seed) == i + seed
hash(i, seed) == i

\* a set of ints is a hash table: i is kept in slot hash(i) & mask of a
\* table of SetTableSize slots
SetTableSize == 8
SetSlot(i, seed) == hash(i, seed) % SetTableSize

RECURSIVE ScanSlots(_, _, _)
ScanSlots(s, slot, seed) ==
    IF slot >= SetTableSize THEN <<>>
    ELSE (IF \E i \in s : SetSlot(i, seed) = slot
          THEN <<CHOOSE i \in s : SetSlot(i, seed) = slot>> ELSE <<>>)
         \o ScanSlots(s, slot + 1, seed)

\* list(axis), order.py:111-113 and 334-336: the entries of the set in the
\* order iteration meets them, slot after slot
list(s, seed) == ScanSlots(s, 0, seed)

\* set(node.op.axis) != set(range(base_var.ndim)), order.py:103-106
CoversAllDims(axis, var) == axis = 0..(var.ndim - 1)

\* owner.op.dtype.startswith("int"), order.py:110 and 333
IsDiscrete(op) == StartsWith(op.dtype, <<"i", "n", "t">>)

\* measurable_max.make_node(base_var).outputs
MakeMarkerNoAxis(class, axis, base) ==
    <<OutputOf(MaxNode(class, <<>>, base), base.ndim - Len(axis))>>
MakeMarker(class, axis, base) ==
    <<OutputOf(MaxNode(class, axis, base), base.ndim - Len(axis))>>

find_measurable_max(fgraph, nd, seed) ==
    LET base_var == nd.inputs[1]
        req == Request(fgraph, nd.inputs)
        axis == set(nd.op.axis)
    IN  IF ~fgraph.preserve_rv_mappings THEN Declined(<<>>)
        ELSE IF AlreadyMeasurableMax(nd.op) THEN Declined(<<>>)
        ELSE IF ~HasOwner(base_var) THEN Declined(<<>>)
        ELSE IF req.granted = <<>> THEN Declined(<<req>>)
        ELSE IF ~UnivariateRV(base_var.owner) THEN Declined(<<req>>)
        ELSE IF HasNonScalarParam(base_var.owner) THEN Declined(<<req>>)
        ELSE IF ~CoversAllDims(axis, base_var) THEN Declined(<<req>>)
        ELSE IF IsDiscrete(base_var.owner.op)
             THEN Replaced(MakeMarker("MeasurableMaxDiscrete", list(axis, seed), base_var),
                           <<req>>)
             ELSE Replaced(MakeMarker("MeasurableMax", list(axis, seed), base_var),
                           <<req>>)

find_measurable_max_neg(fgraph, nd, seed) ==
    LET base_var == nd.inputs[1]
        base_rv == find_negated_var(base_var)
        req == Request(fgraph, <<base_rv>>)
        axis == set(nd.op.axis)
    IN  IF ~fgraph.preserve_rv_mappings THEN Declined(<<>>)
        ELSE IF AlreadyMeasurableMaxNeg(nd.op) THEN Declined(<<>>)
        ELSE IF ~(HasOwner(base_var) /\ IsInstance(base_var.owner.op, "Elemwise"))
             THEN Declined(<<>>)
        ELSE IF base_rv = NoneVar THEN Declined(<<>>)
        \* base_rv.owner.op on a variable without owner: AttributeError
        ELSE IF ~HasOwner(base_rv) THEN Raised(<<>>)
        ELSE IF ~UnivariateRV(base_rv.owner) THEN Declined(<<>>)
        ELSE IF HasNonScalarParam(base_rv.owner) THEN Declined(<<>>)
        ELSE IF ~CoversAllDims(axis, base_var) THEN Declined(<<>>)
        ELSE IF req.granted = <<>> THEN Declined(<<req>>)
        ELSE IF IsDiscrete(base_rv.owner.op)
             THEN Replaced(MakeMarker("MeasurableDiscreteMaxNeg", list(axis, seed), base_rv),
                           <<req>>)
             ELSE Replaced(MakeMarker("MeasurableMaxNeg", list(axis, seed), base_rv),
                           <<req>>)

(***************************************************************************)
(* The density rules registered when the module is loaded, and the         *)
(* dispatch of _logprob on the class of an op.                             *)
(***************************************************************************)
\* @_logprob.register(cls) on each rule, in the order of the module
LogprobRegistrationsWithoutMaxNeg ==
    <<[cls |-> "MeasurableMax", rule |-> "max_logprob"],
      [cls |-> "MeasurableMaxDiscrete", rule |-> "max_logprob_discrete"],
      [cls |-> "MeasurableDiscreteMaxNeg", rule |-> "discrete_max_neg_logprob"]>>
LogprobRegistrations ==
    <<[cls |-> "MeasurableMax", rule |-> "max_logprob"],
      [cls |-> "MeasurableMaxDiscrete", rule |-> "max_logprob_discrete"],
      [cls |-> "MeasurableMaxNeg", rule |-> "max_neg_logprob"],
      [cls |-> "MeasurableDiscreteMaxNeg", rule |-> "discrete_max_neg_logprob"]>>

\* the registry after the module is loaded: a registration replaces an
\* earlier one for the same class; "" when the class has none
RegisteredRule(class) ==
    LET at == {i \in 1..Len(LogprobRegistrations) :
                  LogprobRegistrations[i].cls = class}
    IN  IF at = {} THEN ""
        ELSE LogprobRegistrations[CHOOSE i \in at : \A j \in at : j <= i].rule

\* type(op).__mro__ as far as the classes of this module go
Mro(class) == IF class \in MarkerClasses THEN <<class, "Max">> ELSE <<class>>

\* _logprob(op, ...): the rule registered for the first class of the MRO
\* that has one; without any, the default raises NotImplementedError
Dispatch(class) ==
    LET found == SelectSeq(Mro(class), LAMBDA c : RegisteredRule(c) # "")
    IN  IF found = <<>> THEN "NotImplementedError"
        ELSE RegisteredRule(found[1])

(***************************************************************************)
(* Graphs given to the rewriter.                                           *)
(***************************************************************************)
Min(a, b) == IF a < b THEN a ELSE b

ParamRankSeqs(ndim) ==
    UNION {[1..k -> 0..Min(1, ndim)] : k \in 0..MaxParams}

RVs ==
    {RVVar(nd, s, dt, pr) :
        nd \in 0..MaxNdim, s \in 0..1, dt \in RVDtypes, pr \in ParamRankSeqs(MaxNdim)}

RealRVs ==
    {x \in RVs :
        /\ x.owner.op.ndim_supp <= x.ndim
        /\ \A i \in 1..Len(DistParams(x.owner)) : DistParams(x.owner)[i].ndim <= x.ndim}

\* i.i.d. univariate draws without parameters
PlainRVs ==
    {RVVar(nd, 0, dt, <<>>) : nd \in 0..MaxNdim, dt \in RVDtypes}

Leaves == {Leaf(nd) : nd \in 0..MaxNdim}

Operands ==
    RealRVs \cup Leaves
    \cup {NegVar(x, FALSE) : x \in RealRVs \cup Leaves}
    \cup {NegVar(x, TRUE) : x \in PlainRVs}
    \cup {NegVar(ExpVar(x), FALSE) : x \in PlainRVs}
    \cup {ExpVar(x) : x \in PlainRVs}
    \cup {ScaledVar(x) : x \in PlainRVs}
    \cup {SubtensorVar(x) : x \in PlainRVs}

\* the variables a recognizer may ask the feature about
Askable(x) ==
    {x} \cup (IF find_negated_var(x) = NoneVar THEN {} ELSE {find_negated_var(x)})

Fgraph == [preserve_rv_mappings |-> has_rv_map, grantable |-> grantable]

NotApplied == [rule |-> "", node |-> NoNode, result |-> Declined(<<>>)]

\* the axes a Max op may carry over an operand of rank ndim: distinct
\* dimensions, in any order
AxisTuples(ndim) ==
    UNION {{t \in [1..k -> 0..(ndim - 1)] :
               \A i, j \in 1..k : t[i] = t[j] => i = j} : k \in 0..ndim}

\* hash seeds a process may be started with
HashSeeds == {0, 6, 7}

InitRewrite ==
    /\ \E x \in Operands : \E axis \in AxisTuples(x.ndim) :
          /\ node = MaxNode("Max", axis, x)
          /\ has_rv_map \in BOOLEAN
          /\ grantable \in (IF has_rv_map THEN SUBSET Askable(x) ELSE {{}})
    /\ applied = NotApplied
    /\ needs_measuring = {}
    /\ phase = "rewriting"
    /\ hash_seed \in HashSeeds

IdleRewrite ==
    /\ has_rv_map = FALSE
    /\ grantable = {}
    /\ node = NoNode
    /\ applied = NotApplied
    /\ needs_measuring = {}
    /\ phase = "off"
    /\ hash_seed = 0

Granted(result) ==
    UNION {{result.requests[i].granted[j] : j \in 1..Len(result.requests[i].granted)} :
              i \in 1..Len(result.requests)}

\* the rewriter applies a rule to the node and substitutes the replacement
ApplyRule(rule, result) ==
    /\ applied' = [rule |-> rule, node |-> node, result |-> result]
    /\ needs_measuring' = needs_measuring \cup Granted(result)
    /\ node' = IF result.kind = "replace" THEN result.outputs[1].owner ELSE node
    /\ phase' = IF result.kind = "raise" THEN "raised" ELSE phase
    /\ UNCHANGED <<has_rv_map, grantable, hash_seed>>

ApplyFindMeasurableMax ==
    /\ phase = "rewriting"
    /\ IsInstance(node.op, "Max")
    /\ ApplyRule("find_measurable_max",
                 find_measurable_max(Fgraph, node, hash_seed))
    /\ UNCHANGED <<densityVars, walkVars, transformVars, innerVars>>

ApplyFindMeasurableMaxNeg ==
    /\ phase = "rewriting"
    /\ IsInstance(node.op, "Max")
    /\ ApplyRule("find_measurable_max_neg",
                 find_measurable_max_neg(Fgraph, node, hash_seed))
    /\ UNCHANGED <<densityVars, walkVars, transformVars, innerVars>>

NextRewrite == ApplyFindMeasurableMax \/ ApplyFindMeasurableMaxNeg

(***************************************************************************)
(* Log-space arithmetic.  A log-value is -inf, +inf, NaN or the logarithm  *)
(* of a positive rational num/den in lowest terms; the operators follow    *)
(* IEEE arithmetic on these values, without rounding.                      *)
(***************************************************************************)
RECURSIVE GCD(_, _)
GCD(a, b) == IF b = 0 THEN a ELSE GCD(b, a % b)

RECURSIVE Pow(_, _)
Pow(b, e) == IF e = 0 THEN 1 ELSE b * Pow(b, e - 1)

NInf == [k |-> "ninf", num |-> 0, den |-> 1]
PInf == [k |-> "pinf", num |-> 0, den |-> 1]
NaN == [k |-> "nan", num |-> 0, den |-> 1]
LogRat(num, den) ==
    [k |-> "fin", num |-> num \div GCD(num, den), den |-> den \div GCD(num, den)]
LogZero == LogRat(1, 1)

\* log(num/den) for num >= 0, den > 0
Log(num, den) == IF num = 0 THEN NInf ELSE LogRat(num, den)

\* n * x for an integer n >= 0
Times(n, x) ==
    IF x.k = "nan" THEN NaN
    ELSE IF x.k \in {"ninf", "pinf"} THEN (IF n = 0 THEN NaN ELSE x)
    ELSE LogRat(Pow(x.num, n), Pow(x.den, n))

\* x + y
Plus(x, y) ==
    IF x.k = "nan" \/ y.k = "nan" THEN NaN
    ELSE IF x.k = "ninf" THEN (IF y.k = "pinf" THEN NaN ELSE NInf)
    ELSE IF x.k = "pinf" THEN (IF y.k = "ninf" THEN NaN ELSE PInf)
    ELSE IF y.k \in {"ninf", "pinf"} THEN y
    ELSE LogRat(x.num * y.num, x.den * y.den)

\* x - y
Minus(x, y) ==
    IF x.k = "nan" \/ y.k = "nan" THEN NaN
    ELSE IF x.k = "ninf" THEN (IF y.k = "ninf" THEN NaN ELSE NInf)
    ELSE IF x.k = "pinf" THEN (IF y.k = "pinf" THEN NaN ELSE PInf)
    ELSE IF y.k = "ninf" THEN PInf
    ELSE IF y.k = "pinf" THEN NInf
    ELSE LogRat(x.num * y.den, x.den * y.num)

\* pt.log1mexp(x) = log(1 - exp(x))
Log1mexp(x) ==
    IF x.k = "nan" THEN NaN
    ELSE IF x.k = "ninf" THEN LogZero
    ELSE IF x.k = "pinf" THEN NaN
    ELSE IF x.num > x.den THEN NaN
    ELSE Log(x.den - x.num, x.den)

\* pymc.math.logdiffexp(a, b) = a + log1mexp(b - a)
logdiffexp(a, b) == Plus(a, Log1mexp(Minus(b, a)))

\* pt.eq(x, -inf)
IsNegInf(x) == x.k = "ninf"

(***************************************************************************)
(* The base distribution: integer support lo .. lo + Len(w) - 1, the       *)
(* outcome lo + i - 1 having probability w[i] / Total(w).                  *)
(***************************************************************************)
RECURSIVE SumUpTo(_, _)
SumUpTo(w, i) == IF i <= 0 THEN 0 ELSE w[i] + SumUpTo(w, i - 1)

Total(w) == SumUpTo(w, Len(w))

Hi(d) == d.lo + Len(d.w) - 1

\* numerator of the CDF at x, over Total(d.w)
CdfNum(d, x) ==
    IF x < d.lo THEN 0
    ELSE IF x >= Hi(d) THEN Total(d.w)
    ELSE SumUpTo(d.w, x - d.lo + 1)

\* _logcdf_helper(base_rv, x)
LogCdf(d, x) == Log(CdfNum(d, x), Total(d.w))

\* _logprob_helper(base_rv, x)
LogProb(d, x) ==
    IF x < d.lo \/ x > Hi(d) THEN NInf ELSE Log(d.w[x - d.lo + 1], Total(d.w))

\* constant_fold([base_rv.size]): the one-element list of the size, or no
\* result (the call raises) when the size is not statically determinable
constant_fold(static, n) == IF static THEN <<n>> ELSE <<>>

(***************************************************************************)
(* The density rules (order.py:129-273 and 348-392), given the folded n.   *)
(***************************************************************************)
Evaluated(rule, logcdf, logcdf_prev, logprob) ==
    [rule |-> rule, logcdf |-> logcdf, logcdf_prev |-> logcdf_prev,
     logprob |-> logprob]

NotEvaluated == Evaluated("", NaN, NaN, NaN)

\* (n - 1) * logcdf + logprob + pt.math.log(n), order.py:247-251
max_logprob(d, n, v) ==
    LET logprob == LogProb(d, v)
        logcdf == LogCdf(d, v)
    IN  Evaluated("max_logprob", logcdf, NaN,
                  Plus(Plus(Times(n - 1, logcdf), logprob), Log(n, 1)))

\* (n - 1) * pt.math.log(1 - pt.math.exp(logcdf)) + logprob + pt.math.log(n),
\* order.py:358-362
max_neg_logprob_at_value(d, n, v) ==
    LET logprob == LogProb(d, v)
        logcdf == LogCdf(d, v)
    IN  Evaluated("max_neg_logprob", logcdf, NaN,
                  Plus(Plus(Times(n - 1, Log1mexp(logcdf)), logprob), Log(n, 1)))
max_neg_logprob(d, n, v) ==
    LET logprob == LogProb(d, -v)
        logcdf == LogCdf(d, -v)
    IN  Evaluated("max_neg_logprob", logcdf, NaN,
                  Plus(Plus(Times(n - 1, Log1mexp(logcdf)), logprob), Log(n, 1)))

max_logprob_discrete_swapped(d, n, v) ==
    LET logcdf == LogCdf(d, v)
        logcdf_prev == LogCdf(d, v - 1)
    IN  Evaluated("max_logprob_discrete", logcdf, logcdf_prev,
                  logdiffexp(Times(n, logcdf_prev), Times(n, logcdf)))

max_logprob_discrete(d, n, v) ==
    LET logcdf == LogCdf(d, v)
        logcdf_prev == LogCdf(d, v - 1)
    IN  Evaluated("max_logprob_discrete", logcdf, logcdf_prev,
                  logdiffexp(Times(n, logcdf), Times(n, logcdf_prev)))

discrete_max_neg_logprob_unguarded(d, n, v) ==
    LET logcdf == Log1mexp(LogCdf(d, -v))
        logcdf_prev == Log1mexp(LogCdf(d, -(v + 1)))
    IN  Evaluated("discrete_max_neg_logprob", logcdf, logcdf_prev,
                  logdiffexp(Times(n, logcdf_prev), Times(n, logcdf)))

discrete_max_neg_logprob(d, n, v) ==
    LET logcdf == Log1mexp(LogCdf(d, -v))
        logcdf_prev == Log1mexp(LogCdf(d, -(v + 1)))
    IN  Evaluated("discrete_max_neg_logprob", logcdf, logcdf_prev,
                  IF IsNegInf(logcdf) /\ IsNegInf(logcdf_prev) THEN NInf
                  ELSE logdiffexp(Times(n, logcdf_prev), Times(n, logcdf)))

MaxSupport == 5
MaxDraws == 3
Margin == 2

Weights == {1, 2}
Lows == {-1, 0}

Dists == {[lo |-> lo, w |-> w] :
             lo \in Lows, w \in UNION {[1..s -> Weights] : s \in 1..MaxSupport}}

InitDensity ==
    /\ dist \in Dists
    /\ n_draws \in 1..MaxDraws
    /\ size_static \in BOOLEAN
    /\ value \in (-(MaxSupport + Margin))..(MaxSupport + Margin)
    /\ value \in (dist.lo - Margin)..(Hi(dist) + Margin)
           \cup (-Hi(dist) - Margin)..(-dist.lo + Margin)
    /\ density = NotEvaluated
    /\ raised = ""

\* [n] = constant_fold([base_rv.size]) in the rule being called
Folded == constant_fold(size_static, n_draws)

\* the rule raises: it returns nothing
RaiseFrom(rule) ==
    /\ raised' = rule
    /\ density' = density
    /\ UNCHANGED <<dist, n_draws, size_static, value, rewriteVars, walkVars,
                 transformVars, innerVars>>

\* the rule returns its logprob
Return(result) ==
    /\ raised' = ""
    /\ density' = result
    /\ UNCHANGED <<dist, n_draws, size_static, value, rewriteVars, walkVars,
                 transformVars, innerVars>>

MaxLogprob ==
    /\ dist.w # <<>>
    /\ IF Folded = <<>> THEN RaiseFrom("max_logprob")
       ELSE Return(max_logprob(dist, Folded[1], value))

MaxLogprobDiscrete ==
    /\ dist.w # <<>>
    /\ IF Folded = <<>> THEN RaiseFrom("max_logprob_discrete")
       ELSE Return(max_logprob_discrete(dist, Folded[1], value))

MaxNegLogprobSymbolic ==
    /\ dist.w # <<>>
    /\ Return(max_neg_logprob(dist, n_draws, value))
MaxNegLogprob ==
    /\ dist.w # <<>>
    /\ IF Folded = <<>> THEN RaiseFrom("max_neg_logprob")
       ELSE Return(max_neg_logprob(dist, Folded[1], value))

DiscreteMaxNegLogprob ==
    /\ dist.w # <<>>
    /\ IF Folded = <<>> THEN RaiseFrom("discrete_max_neg_logprob")
       ELSE Return(discrete_max_neg_logprob(dist, Folded[1], value))

NextDensity ==
    \/ MaxLogprob
    \/ MaxLogprobDiscrete
    \/ MaxNegLogprob
    \/ DiscreteMaxNegLogprob

IdleDensity ==
    /\ dist = [lo |-> 0, w |-> <<>>]
    /\ n_draws = 0
    /\ size_static = FALSE
    /\ value = 0
    /\ density = NotEvaluated
    /\ raised = ""

(***************************************************************************)
(* check_potential_measurability (utils.py:161-183).  The graph is a       *)
(* sequence of variables; graph[v].class is the class of the op that       *)
(* produced v ("None" for a variable without owner) and graph[v].inputs    *)
(* the owner's inputs, in declaration order.                               *)
(***************************************************************************)
NumVars == 3

Reverse(seq) == [i \in 1..Len(seq) |-> seq[Len(seq) + 1 - i]]

VarHasOwner(g, v) == g[v].class # "None"
VarIsMeasurable(g, v) == IsMeasurableClass(g[v].class)

\* expand_fn, utils.py:166-171
expand_fn_through_valued(g, valued, v) ==
    IF VarHasOwner(g, v) /\ ~VarIsMeasurable(g, v)
    THEN Reverse(g[v].inputs)
    ELSE <<>>

expand_fn(g, valued, v) ==
    IF VarHasOwner(g, v) /\ ~VarIsMeasurable(g, v) /\ v \notin valued
    THEN Reverse(g[v].inputs)
    ELSE <<>>

\* walk(inputs, expand=expand_fn, bfs=False): the variables in the order
\* they are yielded; nodes is the deque, popped from the right
RECURSIVE Walk(_, _, _, _, _)
Walk(g, valued, nodes, rval_set, yielded) ==
    IF nodes = <<>> THEN yielded
    ELSE LET v == nodes[Len(nodes)]
             rest == SubSeq(nodes, 1, Len(nodes) - 1)
         IN  IF v \in rval_set
             THEN Walk(g, valued, rest, rval_set, yielded)
             ELSE Walk(g, valued, rest \o expand_fn(g, valued, v),
                       rval_set \cup {v}, Append(yielded, v))

\* the filter of the generator, utils.py:176-180
IsUnvaluedMeasurable(g, valued, v) ==
    VarHasOwner(g, v) /\ VarIsMeasurable(g, v) /\ v \notin valued

check_first_yielded(g, inputs, valued) ==
    LET yielded == Walk(g, valued, inputs, {}, <<>>)
    IN  [done |-> TRUE,
         yielded |-> yielded,
         result |-> yielded # <<>>
                    /\ IsUnvaluedMeasurable(g, valued, yielded[1])]
check_potential_measurability(g, inputs, valued) ==
    LET yielded == Walk(g, valued, inputs, {}, <<>>)
    IN  [done |-> TRUE,
         yielded |-> yielded,
         result |-> \E i \in 1..Len(yielded) :
                        IsUnvaluedMeasurable(g, valued, yielded[i])]

NotWalked == [done |-> FALSE, yielded |-> <<>>, result |-> FALSE]

RECURSIVE Ascending(_)
Ascending(S) ==
    IF S = {} THEN <<>>
    ELSE LET m == CHOOSE x \in S : \A y \in S : x <= y
         IN  <<m>> \o Ascending(S \ {m})

\* the variables of S in every order
Orderings(S) ==
    {t \in [1..Cardinality(S) -> S] : \A i, j \in DOMAIN t : t[i] = t[j] => i = j}

\* a variable is a graph input, or the output of a plain op, of a
\* RandomVariable or of a marker (which has one input); inputs precede it
\* in the graph and are declared in any order
VarChoices(v) ==
    {[class |-> "None", inputs |-> <<>>]}
    \cup {[class |-> c, inputs |-> t] :
             c \in {"Elemwise", "RandomVariable"},
             t \in UNION {Orderings(S) : S \in SUBSET (1..(v - 1))}}
    \cup {[class |-> "MeasurableMax", inputs |-> <<u>>] : u \in 1..(v - 1)}

Graphs == {g \in [1..NumVars -> UNION {VarChoices(v) : v \in 1..NumVars}] :
              \A v \in 1..NumVars : g[v] \in VarChoices(v)}

CandidateInputs ==
    {<<NumVars>>, <<NumVars - 1, NumVars>>, <<NumVars, NumVars - 1>>}

InitWalk ==
    /\ graph \in Graphs
    /\ valued_rvs \in SUBSET (1..NumVars)
    /\ walk_inputs \in CandidateInputs
    /\ walked = NotWalked

CheckPotentialMeasurability ==
    /\ graph # <<>>
    /\ walked' = check_potential_measurability(graph, walk_inputs, valued_rvs)
    /\ UNCHANGED <<graph, valued_rvs, walk_inputs, rewriteVars, densityVars,
                 transformVars, innerVars>>

NextWalk == CheckPotentialMeasurability

IdleWalk ==
    /\ graph = <<>>
    /\ valued_rvs = {}
    /\ walk_inputs = <<>>
    /\ walked = NotWalked

(***************************************************************************)
(* Transforms (src/pymc3/distributions/transforms.py).  A tensor element   *)
(* is a real number held exactly: a rational num/den (k = "lin"), the      *)
(* logarithm of a positive rational (k = "fin", as in the density rules),  *)
(* -inf, +inf or NaN.  Zero is held as log(1).  A number that is neither   *)
(* rational nor the logarithm of a rational is outside the arithmetic held *)
(* here and is marked k = "out".                                           *)
(***************************************************************************)
Abs(n) == IF n < 0 THEN -n ELSE n

Out == [k |-> "out", num |-> 0, den |-> 1]

\* the rational n/d, d # 0
Rat(n, d) ==
    IF n = 0 THEN LogZero
    ELSE LET g == GCD(Abs(n), Abs(d))
             s == IF d < 0 THEN -1 ELSE 1
         IN  [k |-> "lin", num |-> (s * n) \div g, den |-> (s * d) \div g]

IsRat(x) == x.k = "lin" \/ x = LogZero
RNum(x) == IF x.k = "lin" THEN x.num ELSE 0
RDen(x) == IF x.k = "lin" THEN x.den ELSE 1

\* x + y
add(x, y) ==
    IF x.k = "out" \/ y.k = "out" THEN Out
    ELSE IF x.k \in {"nan", "ninf", "pinf"} \/ y.k \in {"nan", "ninf", "pinf"}
         THEN Plus(x, y)
    ELSE IF IsRat(x) /\ IsRat(y)
         THEN Rat(RNum(x) * RDen(y) + RNum(y) * RDen(x), RDen(x) * RDen(y))
    ELSE IF x.k = "fin" /\ y.k = "fin" THEN Plus(x, y)
    ELSE Out

\* -x
neg(x) ==
    IF x.k = "lin" THEN Rat(-x.num, x.den)
    ELSE IF x.k = "fin" THEN LogRat(x.den, x.num)
    ELSE IF x.k = "ninf" THEN PInf
    ELSE IF x.k = "pinf" THEN NInf
    ELSE x

\* x - y
sub(x, y) == add(x, neg(y))

\* x * y for finite x and y, one of them rational
mul(x, y) ==
    IF x.k = "out" \/ y.k = "out" THEN Out
    ELSE IF x.k = "nan" \/ y.k = "nan" THEN NaN
    ELSE IF IsRat(x) /\ IsRat(y)
         THEN Rat(RNum(x) * RNum(y), RDen(x) * RDen(y))
    ELSE IF IsRat(x) /\ RDen(x) = 1 /\ RNum(x) > 0 /\ y.k = "fin"
         THEN Times(RNum(x), y)
    ELSE IF IsRat(y) /\ RDen(y) = 1 /\ RNum(y) > 0 /\ x.k = "fin"
         THEN Times(RNum(y), x)
    ELSE Out

\* aet.log
aet_log(x) ==
    IF x = LogZero THEN NInf
    ELSE IF x.k = "lin" THEN (IF x.num > 0 THEN LogRat(x.num, x.den) ELSE NaN)
    ELSE IF x.k = "fin" THEN (IF x.num < x.den THEN NaN ELSE Out)
    ELSE IF x.k = "ninf" THEN NaN
    ELSE x

\* aet.exp
aet_exp(y) ==
    IF y.k = "fin" THEN Rat(y.num, y.den)
    ELSE IF y.k = "ninf" THEN Rat(0, 1)
    ELSE IF y.k = "lin" THEN Out
    ELSE y

\* aet.nnet.sigmoid(y) = 1 / (1 + exp(-y))
sigmoid(y) ==
    IF y.k = "fin" THEN Rat(y.num, y.num + y.den)
    ELSE IF y.k = "ninf" THEN Rat(0, 1)
    ELSE IF y.k = "pinf" THEN Rat(1, 1)
    ELSE IF y.k = "lin" THEN Out
    ELSE y

\* aet.nnet.softplus(y) = log(1 + exp(y))
softplus(y) ==
    IF y.k = "fin" THEN LogRat(y.num + y.den, y.den)
    ELSE IF y.k = "ninf" THEN LogZero
    ELSE IF y.k = "lin" THEN Out
    ELSE y

\* the angle (num/den) * pi; the angle 0 is the number 0
PiTimes(num, den) ==
    IF num = 0 THEN Rat(0, 1)
    ELSE [k |-> "pi", num |-> num \div GCD(Abs(num), den),
          den |-> den \div GCD(Abs(num), den)]

\* the number of quarter turns in x, for x a multiple of pi/2
IsQuarterTurns(x) == x = Rat(0, 1) \/ (x.k = "pi" /\ x.den \in {1, 2})
QuarterTurns(x) == IF x.k = "pi" THEN (2 * x.num) \div x.den ELSE 0

\* aet.sin and aet.cos, exact at the multiples of pi/2
aet_sin(x) ==
    IF ~IsQuarterTurns(x) THEN Out
    ELSE IF QuarterTurns(x) % 4 = 1 THEN Rat(1, 1)
    ELSE IF QuarterTurns(x) % 4 = 3 THEN Rat(-1, 1)
    ELSE Rat(0, 1)

aet_cos(x) ==
    IF ~IsQuarterTurns(x) THEN Out
    ELSE IF QuarterTurns(x) % 4 = 0 THEN Rat(1, 1)
    ELSE IF QuarterTurns(x) % 4 = 2 THEN Rat(-1, 1)
    ELSE Rat(0, 1)

\* aet.arctan2(y, x): the angle in (-pi, pi] of the point (x, y), for a
\* point on an axis
arctan2(y, x) ==
    IF ~(IsRat(y) /\ IsRat(x)) THEN Out
    ELSE IF RNum(y) = 0 /\ RNum(x) > 0 THEN PiTimes(0, 1)
    ELSE IF RNum(y) > 0 /\ RNum(x) = 0 THEN PiTimes(1, 2)
    ELSE IF RNum(y) = 0 /\ RNum(x) < 0 THEN PiTimes(1, 1)
    ELSE IF RNum(y) < 0 /\ RNum(x) = 0 THEN PiTimes(-1, 2)
    ELSE Out

\* x <= y for finite x and y of one kind
Leq(x, y) ==
    IF IsRat(x) /\ IsRat(y) THEN RNum(x) * RDen(y) <= RNum(y) * RDen(x)
    ELSE x.num * y.den <= y.num * x.den

(***************************************************************************)
(* Tensors: the rank and the elements along the last axis.  A tensor of    *)
(* rank above 1 has leading axes of length one (shape (1, ..., 1, n)).     *)
(***************************************************************************)
Tensor(ndim, elems) == [ndim |-> ndim, elems |-> elems, exc |-> ""]

\* a call that raised instead of returning a tensor
RaiseTensor(exc) == [ndim |-> 0, elems |-> <<>>, exc |-> exc]
Raises(t) == t.exc # ""
Vector(elems) == Tensor(1, elems)
Scalar(x) == Tensor(0, <<x>>)

RECURSIVE SumSeq(_)
SumSeq(s) == IF s = <<>> THEN Rat(0, 1) ELSE add(s[1], SumSeq(Tail(s)))

\* t.sum(axis=-1), aet.sum(t, axis=-1)
SumLastAxis(t) == Tensor(t.ndim - 1, <<SumSeq(t.elems)>>)

\* x + y with broadcasting of a rank-0 or length-1 operand
Broadcast(t, n) ==
    IF Len(t.elems) = 1 THEN [i \in 1..n |-> t.elems[1]] ELSE t.elems
AddTensors(x, y) ==
    LET n == IF Len(x.elems) = 1 THEN Len(y.elems) ELSE Len(x.elems)
        ndim == IF x.ndim > y.ndim THEN x.ndim ELSE y.ndim
    IN  Tensor(ndim, [i \in 1..n |-> add(Broadcast(x, n)[i], Broadcast(y, n)[i])])

\* every element is a number held by the arithmetic
Representable(t) == \A i \in 1..Len(t.elems) : t.elems[i].k # "out"

(***************************************************************************)
(* Transform objects: the class, the name attribute, and what the          *)
(* transform's param_extract_fn returns for the random variable (a and b,  *)
(* <<>> standing for None).                                                *)
(***************************************************************************)
MakeTransform(class, name, a, b, transform_list) ==
    [class |-> class, name |-> name, a |-> a, b |-> b,
     transform_list |-> transform_list]

log == MakeTransform("Log", "log", <<>>, <<>>, <<>>)
interval(a, b) == MakeTransform("Interval", "interval", a, b, <<>>)
sum_to_1 == MakeTransform("SumTo1", "sumto1", <<>>, <<>>, <<>>)
stick_breaking ==
    MakeTransform("StickBreaking", "stickbreaking", <<>>, <<>>, <<>>)
circular == MakeTransform("Circular", "circular", <<>>, <<>>, <<>>)
\* CholeskyCovPacked(param_extract_fn), with the diag_idxs it extracts
cholesky_cov_packed(diag_idxs) ==
    [class |-> "CholeskyCovPacked", name |-> "cholesky-cov-packed",
     a |-> <<>>, b |-> <<>>, transform_list |-> <<>>,
     diag_idxs |-> diag_idxs]

\* "+".join(names)
RECURSIVE JoinPlus(_)
JoinPlus(names) ==
    IF names = <<>> THEN ""
    ELSE IF Len(names) = 1 THEN names[1]
    ELSE names[1] \o "+" \o JoinPlus(Tail(names))

\* Chain.__init__, transforms.py:373-375
Chain(transform_list) ==
    MakeTransform("Chain",
                  JoinPlus([i \in DOMAIN transform_list |->
                               transform_list[i].name]),
                  <<>>, <<>>, transform_list)

\* rv_var.broadcastable[-1]
LastBroadcastable(rv_var) == rv_var.broadcastable[Len(rv_var.broadcastable)]

\* Log (transforms.py:132-142)
Log_backward(rv_var, rv_value) ==
    Tensor(rv_value.ndim,
           [i \in DOMAIN rv_value.elems |-> aet_exp(rv_value.elems[i])])
Log_forward(rv_var, rv_value) ==
    Tensor(rv_value.ndim,
           [i \in DOMAIN rv_value.elems |-> aet_log(rv_value.elems[i])])
Log_jacobian_det(rv_var, rv_value) == rv_value

\* Interval (transforms.py:182-221)
Interval_backward(t, rv_var, rv_value) ==
    LET y == rv_value.elems
    IN  IF t.a # <<>> /\ t.b # <<>>
        THEN Tensor(rv_value.ndim,
                 [i \in DOMAIN y |->
                     add(mul(sigmoid(y[i]), t.b[1]),
                         mul(sub(Rat(1, 1), sigmoid(y[i])), t.a[1]))])
        ELSE IF t.a # <<>>
        THEN Tensor(rv_value.ndim, [i \in DOMAIN y |-> add(aet_exp(y[i]), t.a[1])])
        ELSE IF t.b # <<>>
        THEN Tensor(rv_value.ndim, [i \in DOMAIN y |-> sub(t.b[1], aet_exp(y[i]))])
        ELSE rv_value

Interval_forward_swapped(t, rv_var, rv_value) ==
    LET x == rv_value.elems
    IN  IF t.a # <<>> /\ t.b # <<>>
        THEN Tensor(rv_value.ndim,
                 [i \in DOMAIN x |->
                     sub(aet_log(sub(x[i], t.a[1])), aet_log(sub(t.b[1], x[i])))])
        ELSE IF t.b # <<>>
        THEN Tensor(rv_value.ndim, [i \in DOMAIN x |-> aet_log(sub(x[i], t.b[1]))])
        ELSE IF t.a # <<>>
        THEN Tensor(rv_value.ndim, [i \in DOMAIN x |-> aet_log(sub(t.a[1], x[i]))])
        ELSE rv_value
Interval_forward(t, rv_var, rv_value) ==
    LET x == rv_value.elems
    IN  IF t.a # <<>> /\ t.b # <<>>
        THEN Tensor(rv_value.ndim,
                 [i \in DOMAIN x |->
                     sub(aet_log(sub(x[i], t.a[1])), aet_log(sub(t.b[1], x[i])))])
        ELSE IF t.a # <<>>
        THEN Tensor(rv_value.ndim, [i \in DOMAIN x |-> aet_log(sub(x[i], t.a[1]))])
        ELSE IF t.b # <<>>
        THEN Tensor(rv_value.ndim, [i \in DOMAIN x |-> aet_log(sub(t.b[1], x[i]))])
        ELSE rv_value

Interval_jacobian_det(t, rv_var, rv_value) ==
    LET y == rv_value.elems
    IN  IF t.a # <<>> /\ t.b # <<>>
        THEN Tensor(rv_value.ndim,
                 [i \in DOMAIN y |->
                     sub(sub(aet_log(sub(t.b[1], t.a[1])),
                             mul(Rat(2, 1), softplus(neg(y[i])))),
                         y[i])])
        ELSE rv_value

\* SumTo1 (transforms.py:253-270)
SumTo1_backward(rv_var, rv_value) ==
    LET remaining == sub(Rat(1, 1), SumSeq(rv_value.elems))
    IN  Tensor(rv_value.ndim, rv_value.elems \o <<remaining>>)

SumTo1_forward(rv_var, rv_value) ==
    Tensor(rv_value.ndim, SubSeq(rv_value.elems, 1, Len(rv_value.elems) - 1))

SumTo1_jacobian_det(rv_var, rv_value) ==
    LET y == Tensor(rv_value.ndim, [i \in DOMAIN rv_value.elems |-> Rat(0, 1)])
    IN  SumLastAxis(y)

\* x / n for an integer n > 0: the n-th root under the logarithm
IsPower(m, n) == \E s \in 1..m : Pow(s, n) = m
Root(m, n) == CHOOSE s \in 1..m : Pow(s, n) = m
DivByInt(x, n) ==
    IF n = 0 THEN NaN
    ELSE IF x.k = "lin" THEN Rat(x.num, x.den * n)
    ELSE IF x.k = "fin"
         THEN (IF IsPower(x.num, n) /\ IsPower(x.den, n)
               THEN LogRat(Root(x.num, n), Root(x.den, n))
               ELSE Out)
    ELSE x

\* x / y for rational x and y
div(x, y) ==
    IF x.k = "out" \/ y.k = "out" THEN Out
    ELSE IF ~(IsRat(x) /\ IsRat(y)) THEN (IF x.k = "nan" \/ y.k = "nan" THEN NaN ELSE Out)
    ELSE IF RNum(y) # 0 THEN Rat(RNum(x) * RDen(y), RDen(x) * RNum(y))
    ELSE IF RNum(x) > 0 THEN PInf
    ELSE IF RNum(x) < 0 THEN NInf
    ELSE NaN

\* aet.max over a sequence of finite numbers of one kind
MaxSeq(s) ==
    IF s = <<>> THEN NaN
    ELSE IF (\A i \in 1..Len(s) : s[i].k = "fin") \/ (\A i \in 1..Len(s) : IsRat(s[i]))
         THEN s[CHOOSE i \in 1..Len(s) : \A j \in 1..Len(s) : Leq(s[j], s[i])]
    ELSE Out

\* pymc3.math.logsumexp over the elements: log(sum(exp(x)))
logsumexp(s) == aet_log(SumSeq([i \in 1..Len(s) |-> aet_exp(s[i])]))

\* StickBreaking (transforms.py:276-326)
StickBreaking_forward(rv_var, rv_value) ==
    IF LastBroadcastable(rv_var) THEN rv_value
    ELSE LET x == rv_value.elems
             n == Len(x)
             lx == [i \in 1..n |-> aet_log(x[i])]
             shift == DivByInt(SumSeq(lx), n)
         IN  Tensor(rv_value.ndim, [i \in 1..(n - 1) |-> sub(lx[i], shift)])

StickBreaking_backward(rv_var, rv_value) ==
    IF LastBroadcastable(rv_var) THEN rv_value
    ELSE LET y == rv_value.elems \o <<neg(SumSeq(rv_value.elems))>>
             top == MaxSeq(y)
             e_y == [i \in 1..Len(y) |-> aet_exp(sub(y[i], top))]
         IN  Tensor(rv_value.ndim, [i \in 1..Len(y) |-> div(e_y[i], SumSeq(e_y))])

StickBreaking_jacobian_det(rv_var, rv_value) ==
    IF LastBroadcastable(rv_var)
    THEN Tensor(rv_value.ndim, [i \in DOMAIN rv_value.elems |-> Rat(1, 1)])
    ELSE LET y == rv_value.elems
             Km1 == Len(y) + 1
             sy == SumSeq(y)
             r == [i \in 1..Len(y) |-> add(y[i], sy)] \o <<Rat(0, 1)>>
             sr == logsumexp(r)
         IN  Tensor(rv_value.ndim - 1,
                    <<sub(add(aet_log(Rat(Km1, 1)), mul(Rat(Km1, 1), sy)),
                          mul(Rat(Km1, 1), sr))>>)

\* Circular (transforms.py:332-344)
Circular_backward_unwrapped(rv_var, rv_value) == rv_value
Circular_backward(rv_var, rv_value) ==
    Tensor(rv_value.ndim,
           [i \in DOMAIN rv_value.elems |->
               arctan2(aet_sin(rv_value.elems[i]), aet_cos(rv_value.elems[i]))])

Circular_forward(rv_var, rv_value) == rv_value

Circular_jacobian_det(rv_var, rv_value) ==
    Tensor(rv_value.ndim, [i \in DOMAIN rv_value.elems |-> Rat(0, 1)])

\* the length of the first axis
FirstAxisLen(rv_value) ==
    IF rv_value.ndim > 1 THEN 1 ELSE Len(rv_value.elems)

\* rv_value[diag_idxs] and advanced_set_subtensor1(rv_value, ..., diag_idxs)
\* check every index against the first axis; a tensor of rank 0 has none
IndexInBounds(rv_value, diag_idxs) ==
    /\ rv_value.ndim >= 1
    /\ \A j \in 1..Len(diag_idxs) :
           /\ diag_idxs[j] < FirstAxisLen(rv_value)
           /\ diag_idxs[j] >= -FirstAxisLen(rv_value)

\* the position on the first axis an index stands for, counted from 0: a
\* negative index counts from the end
Position(rv_value, idx) == idx % FirstAxisLen(rv_value)

\* the rows of rv_value[diag_idxs], index after index
RECURSIVE Rows(_, _)
Rows(rv_value, diag_idxs) ==
    IF diag_idxs = <<>> THEN <<>>
    ELSE (IF rv_value.ndim > 1 THEN rv_value.elems
          ELSE <<rv_value.elems[Position(rv_value, Head(diag_idxs)) + 1]>>)
         \o Rows(rv_value, Tail(diag_idxs))

\* rv_value[diag_idxs], transforms.py:358, 362, 366; for a rank above 1 the
\* rows picked are held one after another
AdvancedSubtensor1(rv_value, diag_idxs) ==
    IF ~IndexInBounds(rv_value, diag_idxs) THEN RaiseTensor("IndexError")
    ELSE Tensor(rv_value.ndim, Rows(rv_value, diag_idxs))

\* aet.exp and aet.log of a tensor
TensorExp(t) ==
    IF Raises(t) THEN t
    ELSE Tensor(t.ndim, [i \in DOMAIN t.elems |-> aet_exp(t.elems[i])])
TensorLog(t) ==
    IF Raises(t) THEN t
    ELSE Tensor(t.ndim, [i \in DOMAIN t.elems |-> aet_log(t.elems[i])])

\* advanced_set_subtensor1(x, y, idxs), transforms.py:358, 362: x with the
\* row at each index replaced by the row of y written there last
advanced_set_subtensor1(x, y, idxs) ==
    IF Raises(y) THEN y
    ELSE IF ~IndexInBounds(x, idxs) THEN RaiseTensor("IndexError")
    ELSE LET n == IF x.ndim > 1 THEN Len(x.elems) ELSE 1
             Written(p) ==
                 {j \in 1..Len(idxs) : Position(x, idxs[j]) = p}
             LastWritten(p) ==
                 CHOOSE j \in Written(p) : \A j2 \in Written(p) : j2 <= j
         IN  Tensor(x.ndim,
                 [i \in DOMAIN x.elems |->
                     LET p == IF x.ndim > 1 THEN 0 ELSE i - 1
                         col == IF x.ndim > 1 THEN i ELSE 1
                     IN  IF Written(p) # {}
                         THEN y.elems[(LastWritten(p) - 1) * n + col]
                         ELSE x.elems[i]])

\* CholeskyCovPacked (transforms.py:350-366)
CholeskyCovPacked_backward(t, rv_var, rv_value) ==
    LET diag_idxs == t.diag_idxs
    IN  advanced_set_subtensor1(rv_value,
            TensorExp(AdvancedSubtensor1(rv_value, diag_idxs)), diag_idxs)

CholeskyCovPacked_forward(t, rv_var, rv_value) ==
    LET diag_idxs == t.diag_idxs
    IN  advanced_set_subtensor1(rv_value,
            TensorLog(AdvancedSubtensor1(rv_value, diag_idxs)), diag_idxs)

\* aet.sum(t)
SumAll(t) == IF Raises(t) THEN t ELSE Scalar(SumSeq(t.elems))

CholeskyCovPacked_jacobian_det(t, rv_var, rv_value) ==
    LET diag_idxs == t.diag_idxs
    IN  SumAll(AdvancedSubtensor1(rv_value, diag_idxs))

\* the method of a transform that is not a Chain
transf_forward(t, rv_var, rv_value) ==
    IF t.class = "Log" THEN Log_forward(rv_var, rv_value)
    ELSE IF t.class = "Interval" THEN Interval_forward(t, rv_var, rv_value)
    ELSE IF t.class = "SumTo1" THEN SumTo1_forward(rv_var, rv_value)
    ELSE IF t.class = "CholeskyCovPacked"
         THEN CholeskyCovPacked_forward(t, rv_var, rv_value)
    ELSE IF t.class = "Circular" THEN Circular_forward(rv_var, rv_value)
    ELSE StickBreaking_forward(rv_var, rv_value)

transf_backward(t, rv_var, rv_value) ==
    IF t.class = "Log" THEN Log_backward(rv_var, rv_value)
    ELSE IF t.class = "Interval" THEN Interval_backward(t, rv_var, rv_value)
    ELSE IF t.class = "SumTo1" THEN SumTo1_backward(rv_var, rv_value)
    ELSE IF t.class = "CholeskyCovPacked"
         THEN CholeskyCovPacked_backward(t, rv_var, rv_value)
    ELSE IF t.class = "Circular" THEN Circular_backward(rv_var, rv_value)
    ELSE StickBreaking_backward(rv_var, rv_value)

transf_jacobian_det(t, rv_var, rv_value) ==
    IF t.class = "Log" THEN Log_jacobian_det(rv_var, rv_value)
    ELSE IF t.class = "Interval" THEN Interval_jacobian_det(t, rv_var, rv_value)
    ELSE IF t.class = "SumTo1" THEN SumTo1_jacobian_det(rv_var, rv_value)
    ELSE IF t.class = "CholeskyCovPacked"
         THEN CholeskyCovPacked_jacobian_det(t, rv_var, rv_value)
    ELSE IF t.class = "Circular" THEN Circular_jacobian_det(rv_var, rv_value)
    ELSE StickBreaking_jacobian_det(rv_var, rv_value)

\* Chain (transforms.py:369-405): the loops over transform_list, as
\* recursions over the part of the list still to visit
RECURSIVE ForwardLoop(_, _, _)
ForwardLoop(transform_list, rv_var, y) ==
    IF transform_list = <<>> \/ Raises(y) THEN y
    ELSE ForwardLoop(Tail(transform_list), rv_var,
                     transf_forward(Head(transform_list), rv_var, y))

RECURSIVE BackwardLoop(_, _, _)
BackwardLoop(transform_list, rv_var, x) ==
    IF transform_list = <<>> \/ Raises(x) THEN x
    ELSE LET k == Len(transform_list)
         IN  BackwardLoop(SubSeq(transform_list, 1, k - 1), rv_var,
                          transf_backward(transform_list[k], rv_var, x))

Chain_forward_reversed(t, rv_var, rv_value) ==
    ForwardLoop(Reverse(t.transform_list), rv_var, rv_value)
Chain_forward(t, rv_var, rv_value) ==
    ForwardLoop(t.transform_list, rv_var, rv_value)

Chain_backward_listed(t, rv_var, rv_value) ==
    BackwardLoop(Reverse(t.transform_list), rv_var, rv_value)
Chain_backward(t, rv_var, rv_value) ==
    BackwardLoop(t.transform_list, rv_var, rv_value)

\* det_list of Chain.jacobian_det, in appending order; a call that raises
\* ends the loop and is the last entry
RECURSIVE DetList(_, _, _)
DetList(transform_list, rv_var, y) ==
    IF Raises(y) THEN <<y>>
    ELSE IF transform_list = <<>> THEN <<>>
    ELSE LET k == Len(transform_list)
             transf == transform_list[k]
             det_ == transf_jacobian_det(transf, rv_var, y)
         IN  IF Raises(det_) THEN <<det_>>
             ELSE <<det_>>
                  \o DetList(SubSeq(transform_list, 1, k - 1), rv_var,
                             transf_backward(transf, rv_var, y))

\* ndim0 after the first loop
RECURSIVE MinNdim(_, _)
MinNdim(ndim0, det_list) ==
    IF det_list = <<>> THEN ndim0
    ELSE MinNdim(Min(ndim0, Head(det_list).ndim), Tail(det_list))

\* det after the second loop, started from det
RECURSIVE SumDets(_, _, _)
SumDets(det, det_list, ndim0) ==
    IF det_list = <<>> THEN det
    ELSE LET det_ == Head(det_list)
         IN  SumDets(AddTensors(det, IF det_.ndim > ndim0
                                     THEN SumLastAxis(det_) ELSE det_),
                     Tail(det_list), ndim0)

Chain_jacobian_det_unaligned(t, rv_var, rv_value) ==
    LET det_list == DetList(t.transform_list, rv_var, rv_value)
    IN  IF det_list # <<>> /\ Raises(det_list[Len(det_list)])
        THEN det_list[Len(det_list)]
        ELSE SumDets(Scalar(Rat(0, 1)), det_list, rv_value.ndim)
Chain_jacobian_det(t, rv_var, rv_value) ==
    LET det_list == DetList(t.transform_list, rv_var, rv_value)
        ndim0 == MinNdim(rv_value.ndim, det_list)
    IN  IF det_list # <<>> /\ Raises(det_list[Len(det_list)])
        THEN det_list[Len(det_list)]
        ELSE SumDets(Scalar(Rat(0, 1)), det_list, ndim0)

forward(t, rv_var, rv_value) ==
    IF t.class = "Chain" THEN Chain_forward(t, rv_var, rv_value)
    ELSE transf_forward(t, rv_var, rv_value)

backward(t, rv_var, rv_value) ==
    IF t.class = "Chain" THEN Chain_backward(t, rv_var, rv_value)
    ELSE transf_backward(t, rv_var, rv_value)

jacobian_det(t, rv_var, rv_value) ==
    IF t.class = "Chain" THEN Chain_jacobian_det(t, rv_var, rv_value)
    ELSE transf_jacobian_det(t, rv_var, rv_value)

(***************************************************************************)
(* Calls of the three methods of a transform on a value.                   *)
(***************************************************************************)
MaxLen == 2
MaxChain == 2

Lower == Rat(1, 4)
Upper == Rat(1, 1)

\* the packed vector of a 1 x 1 covariance: its diagonal is element 0
DiagIdxs == <<0>>

Children ==
    {log, sum_to_1, stick_breaking, cholesky_cov_packed(DiagIdxs),
     interval(<<>>, <<>>), interval(<<Lower>>, <<>>),
     interval(<<>>, <<Upper>>), interval(<<Lower>>, <<Upper>>)}

\* the transforms put in chains
ChainChildren ==
    Children \ {interval(<<Lower>>, <<>>), interval(<<>>, <<Upper>>)}

Transforms ==
    Children \cup {circular}
    \cup {Chain(l) : l \in UNION {[1..k -> ChainChildren] : k \in 0..MaxChain}}

\* values of the constrained space and of the unconstrained space
XScalars == {Rat(n, 4) : n \in 1..5}
YScalars == {LogRat(1, 2), LogRat(1, 1), LogRat(2, 1)}
Values ==
    {Vector(e) : e \in UNION {[1..k -> XScalars] \cup [1..k -> YScalars] :
                                 k \in 1..MaxLen}}
    \cup {Tensor(2, e) : e \in UNION {[1..k -> YScalars] : k \in 1..MaxLen}}

\* angles: multiples of pi/2 inside and outside (-pi, pi]
Angles == {PiTimes(n, 2) : n \in {-3, -1, 0, 1, 2, 3, 4, 5}}
AngleValues == {Vector(e) : e \in UNION {[1..k -> Angles] : k \in 1..MaxLen}}

NoTransform == MakeTransform("", "", <<>>, <<>>, <<>>)
NoTensor == Tensor(0, <<>>)

InitTransform ==
    /\ transform \in Transforms
    /\ arg \in (IF transform = circular THEN AngleValues ELSE Values)
    /\ rv \in {[broadcastable |-> [i \in 1..arg.ndim |-> i < arg.ndim \/ b]] :
                  b \in BOOLEAN}
    /\ LastBroadcastable(rv) => Len(arg.elems) = 1
    /\ method = ""
    /\ returned = NoTensor

CallForward ==
    /\ transform # NoTransform
    /\ method' = "forward"
    /\ returned' = forward(transform, rv, arg)
    /\ UNCHANGED <<transform, rv, arg, rewriteVars, densityVars, walkVars,
                 innerVars>>

CallBackward ==
    /\ transform # NoTransform
    /\ method' = "backward"
    /\ returned' = backward(transform, rv, arg)
    /\ UNCHANGED <<transform, rv, arg, rewriteVars, densityVars, walkVars,
                 innerVars>>

CallJacobianDet ==
    /\ transform # NoTransform
    /\ method' = "jacobian_det"
    /\ returned' = jacobian_det(transform, rv, arg)
    /\ UNCHANGED <<transform, rv, arg, rewriteVars, densityVars, walkVars,
                 innerVars>>

NextTransform == CallForward \/ CallBackward \/ CallJacobianDet

IdleTransform ==
    /\ transform = NoTransform
    /\ rv = [broadcastable |-> <<FALSE>>]
    /\ arg = NoTensor
    /\ method = ""
    /\ returned = NoTensor

(***************************************************************************)
(* Removal of parameter checks (src/pymc/logprob/utils.py:190-309).  A     *)
(* node has an op class, the flag can_be_replaced_by_ninf of a             *)
(* CheckParameterValue op, its inputs, and for Scan and OpFromGraph the    *)
(* inner graph.  An inner graph is a chain: inner[1] takes the inner input *)
(* as its first input, inner[k + 1] takes the output of inner[k], and the  *)
(* inner output is the output of the last node; the remaining inputs of a  *)
(* check, its conditions, are inner inputs.                                *)
(***************************************************************************)
MaxInner == 2

MakeNode(op, ninf, inputs, inner) ==
    [op |-> op, can_be_replaced_by_ninf |-> ninf, inputs |-> inputs,
     inner |-> inner]

NoApply == MakeNode("", FALSE, <<>>, <<>>)

\* isinstance(node.op, (Scan, OpFromGraph)), utils.py:216, 226, 303
IsInnerGraphOp(nd) == nd.op \in {"Scan", "OpFromGraph"}

\* what a call gives back: a list of one variable or node, None, or an
\* exception
ReturnList(var, nd) == [kind |-> "list", exc |-> "", var |-> var, node |-> nd]
ReturnNode(nd) == [kind |-> "node", exc |-> "", var |-> "", node |-> nd]
ReturnNone == [kind |-> "None", exc |-> "", var |-> "", node |-> NoApply]
ReturnRemove == [kind |-> "remove", exc |-> "", var |-> "", node |-> NoApply]
Raise(exc) == [kind |-> "raise", exc |-> exc, var |-> "", node |-> NoApply]

\* the names each class body defines
ClassBody(class) ==
    CASE class = "InnerGraphRewriter" -> {"transform", "apply"}
      [] class = "RemoveCheckParameterInnerGraph" -> {"transform"}
      [] OTHER -> {}

Bases(class) ==
    IF class = "RemoveCheckParameterInnerGraph"
    THEN <<class, "InnerGraphRewriter", "object">>
    ELSE <<class, "object">>

\* attribute lookup on an instance without instance attributes: the first
\* class of the method resolution order that defines the name
HasAttribute(class, name) ==
    \E i \in DOMAIN Bases(class) : name \in ClassBody(Bases(class)[i])

\* RemoveCheckParameterInnerGraph.transform, utils.py:273-277
RemoveCheckParameterInnerGraph_transform(nd) ==
    IF nd.op = "CheckParameterValue" THEN ReturnRemove ELSE ReturnNone

\* self.rewrite(nd), utils.py:227 and 304: no class of the hierarchy
\* defines rewrite
self_rewrite(class, nd) ==
    IF HasAttribute(class, "rewrite") THEN ReturnNone
    ELSE Raise("AttributeError")

\* the loop of InnerGraphRewriter.apply over io_toposort, utils.py:224-238,
\* from position k on: the positions put in to_remove_set, or the exception
\* that ends the loop
RECURSIVE ApplyLoop(_, _, _, _)
ApplyLoop(class, topo, k, to_remove_set) ==
    IF k > Len(topo) THEN [raised |-> "", to_remove_set |-> to_remove_set]
    ELSE IF IsInnerGraphOp(topo[k])
    THEN LET new_node == self_rewrite(class, topo[k])
         IN  IF new_node.kind = "raise"
             THEN [raised |-> new_node.exc, to_remove_set |-> to_remove_set]
             ELSE ApplyLoop(class, topo, k + 1, to_remove_set)
    ELSE LET transform_ == RemoveCheckParameterInnerGraph_transform(topo[k])
         IN  IF transform_.kind = "remove"
             THEN ApplyLoop(class, topo, k + 1, to_remove_set \cup {k})
             ELSE ApplyLoop(class, topo, k + 1, to_remove_set)

\* clone_replace(node_outputs, replace=givens), utils.py:242, with givens
\* sending the output of each removed node to its first input: the chain
\* without the removed nodes
RECURSIVE clone_replace(_, _, _)
clone_replace(topo, k, to_remove_set) ==
    IF k > Len(topo) THEN <<>>
    ELSE (IF k \in to_remove_set THEN <<>> ELSE <<topo[k]>>)
         \o clone_replace(topo, k + 1, to_remove_set)

\* the names utils.py binds before the class statement of line 206
\* (utils.py:36-58, 64-190) that the annotations of apply may use
ModuleNames ==
    {"Apply", "Op", "OpFromGraph", "Scan", "Union", "Variable",
     "TensorVariable", "clone_replace", "io_toposort", "node_rewriter"}

\* the names in the annotations of apply, utils.py:215
ApplyAnnotations == {"FunctionGraph", "Union", "Scan", "OpFromGraph"}

\* The def statement of apply, run by the class statement of line 206 while
\* the module is loaded, evaluates the annotations of its parameters; one
\* that names nothing bound in the module raises NameError, the loading
\* stops there, and nothing defined from line 206 on exists.
ModuleLoadRaises == ~(ApplyAnnotations \subseteq ModuleNames)

\* InnerGraphRewriter.apply, utils.py:215-269
InnerGraphRewriter_apply(class, nd) ==
    IF ModuleLoadRaises THEN Raise("NameError")
    ELSE IF ~IsInnerGraphOp(nd) THEN Raise("TypeError")
    ELSE LET local_fgraph_topo == nd.inner
             loop == ApplyLoop(class, local_fgraph_topo, 1, {})
         IN  IF loop.raised # "" THEN Raise(loop.raised)
             ELSE IF Cardinality(loop.to_remove_set) = 0 THEN ReturnNone
             ELSE ReturnNode(MakeNode(nd.op, FALSE, nd.inputs,
                      clone_replace(local_fgraph_topo, 1,
                                    loop.to_remove_set)))

\* local_remove_check_parameter, utils.py:297-309
local_remove_check_parameter(fgraph, nd) ==
    IF ModuleLoadRaises THEN Raise("NameError")
    ELSE IF IsInnerGraphOp(nd)
    THEN LET new_node == self_rewrite("RemoveCheckParameterInnerGraph", nd)
         IN  IF new_node.kind \in {"raise", "None"} THEN new_node
             ELSE ReturnList("", new_node.node)
    ELSE IF nd.op = "CheckParameterValue"
    THEN ReturnList(nd.inputs[1], NoApply)
    ELSE ReturnNone

\* nodes of an inner graph without inner graphs of their own
PlainNodes ==
    {MakeNode("Elemwise", FALSE, <<>>, <<>>)}
    \cup {MakeNode("CheckParameterValue", ninf, <<>>, <<>>) :
              ninf \in BOOLEAN}

\* nodes of an inner graph: plain ones, and Scan or OpFromGraph nodes over
\* an inner graph of one plain node
InnerNodes ==
    PlainNodes
    \cup {MakeNode(op, FALSE, <<>>, <<nd>>) :
              op \in {"Scan", "OpFromGraph"}, nd \in PlainNodes}

Chains(S) == UNION {[1..k -> S] : k \in 1..MaxInner}

\* nodes of the outer graph handed to the rewrite
OuterNodes ==
    {MakeNode("Elemwise", FALSE, <<"x">>, <<>>)}
    \cup {MakeNode("CheckParameterValue", ninf, <<"logp", "cond">>, <<>>) :
              ninf \in BOOLEAN}
    \cup {MakeNode(op, FALSE, <<"x">>, inner_) :
              op \in {"Scan", "OpFromGraph"}, inner_ \in Chains(InnerNodes)}

InitInner ==
    /\ rw_node \in OuterNodes
    /\ rw_call = ""
    /\ rw_result = ReturnNone

ApplyLocalRemoveCheckParameter ==
    /\ rw_node # NoApply
    /\ rw_node.op # "Elemwise"
    /\ rw_call' = "local_remove_check_parameter"
    /\ rw_result' = local_remove_check_parameter("fgraph", rw_node)
    /\ UNCHANGED <<rw_node, rewriteVars, densityVars, walkVars, transformVars>>

CallInnerGraphRewriterApply ==
    /\ rw_node # NoApply
    /\ rw_call' = "apply"
    /\ rw_result' =
           InnerGraphRewriter_apply("RemoveCheckParameterInnerGraph", rw_node)
    /\ UNCHANGED <<rw_node, rewriteVars, densityVars, walkVars, transformVars>>

NextInner == ApplyLocalRemoveCheckParameter \/ CallInnerGraphRewriterApply

IdleInner ==
    /\ rw_node = NoApply
    /\ rw_call = ""
    /\ rw_result = ReturnNone

StartInner ==
    InitInner /\ IdleRewrite /\ IdleDensity /\ IdleWalk /\ IdleTransform

SpecInner == StartInner /\ [][NextInner]_vars

(***************************************************************************)
(* The removal of parameter checks.                                        *)
(***************************************************************************)
\* a chain, or an inner graph nested in it, holds a CheckParameterValue node
RECURSIVE HoldsCheck(_)
HoldsCheck(chain) ==
    \E k \in DOMAIN chain :
        chain[k].op = "CheckParameterValue" \/ HoldsCheck(chain[k].inner)

\* the chain with every CheckParameterValue node, nested ones included,
\* replaced by its first input
RECURSIVE WithoutChecks(_)
WithoutChecks(chain) ==
    IF chain = <<>> THEN <<>>
    ELSE (IF Head(chain).op = "CheckParameterValue" THEN <<>>
          ELSE <<MakeNode(Head(chain).op, FALSE, Head(chain).inputs,
                          WithoutChecks(Head(chain).inner))>>)
         \o WithoutChecks(Tail(chain))

CalledOnInnerGraphOp ==
    rw_call = "local_remove_check_parameter" /\ IsInnerGraphOp(rw_node)

CalledOnCheck ==
    /\ rw_call = "local_remove_check_parameter"
    /\ rw_node.op = "CheckParameterValue"

\* C30: local_remove_check_parameter applied to a Scan or OpFromGraph node
\* never raises: it returns None when no inner graph, nested ones included,
\* holds a CheckParameterValue node, and otherwise a rebuilt node whose
\* inner graph has every such node replaced by its first input; applied to
\* a CheckParameterValue node it returns the node's first input whatever
\* can_be_replaced_by_ninf is.
C30_RemovesEveryCheck ==
    /\ CalledOnInnerGraphOp =>
           /\ rw_result.kind # "raise"
           /\ ~HoldsCheck(rw_node.inner) => rw_result = ReturnNone
           /\ HoldsCheck(rw_node.inner) =>
                  rw_result = ReturnList("",
                      MakeNode(rw_node.op, FALSE, rw_node.inputs,
                               WithoutChecks(rw_node.inner)))
    /\ CalledOnCheck => rw_result = ReturnList(rw_node.inputs[1], NoApply)

\* C30: what every call does, of local_remove_check_parameter on a node of
\* any of the three kinds and of InnerGraphRewriter.apply
C30_EveryCallRaisesNameError ==
    rw_call # "" => rw_result = Raise("NameError")

StartRewrite ==
    InitRewrite /\ IdleDensity /\ IdleWalk /\ IdleTransform /\ IdleInner

SpecRewrite == StartRewrite /\ [][NextRewrite]_vars
(***************************************************************************)
(* The parts together.                                                     *)
(***************************************************************************)
Init ==
    \/ StartRewrite
    \/ InitDensity /\ IdleRewrite /\ IdleWalk /\ IdleTransform /\ IdleInner
    \/ InitWalk /\ IdleRewrite /\ IdleDensity /\ IdleTransform /\ IdleInner
    \/ InitTransform /\ IdleRewrite /\ IdleDensity /\ IdleWalk /\ IdleInner
    \/ StartInner

Next == NextRewrite \/ NextDensity \/ NextWalk \/ NextTransform \/ NextInner

Spec == Init /\ [][Next]_vars

(***************************************************************************)
(* Claims about the recognizers, stated on the last rule application.      *)
(***************************************************************************)
AppliedMax == applied.rule = "find_measurable_max"
AppliedMaxNeg == applied.rule = "find_measurable_max_neg"
GivenOperand == applied.node.inputs[1]

\* var is a draw of a univariate RandomVariable all of whose distribution
\* parameters (owner inputs from index 3 on, counted from 0) have rank 0
IsIidUnivariateDraw(var) ==
    /\ var.owner.op.class = "RandomVariable"
    /\ var.owner.op.ndim_supp = 0
    /\ \A i \in 1..Len(var.owner.inputs) : i > 3 => var.owner.inputs[i].ndim = 0

FullReduction(nd) ==
    \A d \in 0..MaxNdim : d \in set(nd.op.axis) <=> d < nd.inputs[1].ndim

\* C1: find_measurable_max returns a replacement only if the feature is
\* present, the node is not already a marker, the operand has a producing
\* op, the request on node.inputs is accepted, the operand is a univariate
\* RandomVariable draw with rank-0 parameters, and the axis set is the set
\* of all operand dimensions.
C1_MaxReplacesOnlyIfAllHold ==
    (AppliedMax /\ applied.result.kind = "replace") =>
        /\ has_rv_map
        /\ applied.node.op.class \notin MarkerClasses
        /\ GivenOperand.owner.op.class # "None"
        /\ GivenOperand \in grantable
        /\ IsIidUnivariateDraw(GivenOperand)
        /\ FullReduction(applied.node)

\* the part of C1 that the code keeps: every precondition but the marker
\* one, and with it the four rejection cases
C1_RejectionCases ==
    (AppliedMax /\ applied.result.kind = "replace") =>
        /\ has_rv_map
        /\ applied.node.op.class # "MeasurableMax"
        /\ GivenOperand.owner.op.class # "None"
        /\ GivenOperand \in grantable
        /\ IsIidUnivariateDraw(GivenOperand)
        /\ FullReduction(applied.node)

\* C2: find_measurable_max_neg returns a replacement if and only if the
\* feature is present, the node is not a marker, the operand is an Elemwise
\* negation of a variable base_rv that is a univariate RandomVariable draw
\* with rank-0 parameters, the axis set covers every operand dimension and
\* the request on [base_rv] is accepted; no request names the negation
\* node, and the replacement wraps base_rv.
C2_MaxNegReplacesIff ==
    AppliedMaxNeg =>
        LET base_rv == find_negated_var(GivenOperand)
        IN  /\ applied.result.kind = "replace" <=>
                  /\ has_rv_map
                  /\ applied.node.op.class \notin MarkerClasses
                  /\ GivenOperand.owner.op.class = "Elemwise"
                  /\ base_rv # NoneVar
                  /\ IsIidUnivariateDraw(base_rv)
                  /\ FullReduction(applied.node)
                  /\ base_rv \in grantable
            /\ \A i \in 1..Len(applied.result.requests) :
                  applied.result.requests[i].vars = <<base_rv>>
            /\ applied.result.kind = "replace" =>
                  /\ Len(applied.result.outputs) = 1
                  /\ applied.result.outputs[1].owner.inputs = <<base_rv>>

C2_Witness ==
    /\ AppliedMaxNeg
    /\ applied.result.kind = "replace"
    /\ applied.result.outputs[1].owner.inputs = <<find_negated_var(GivenOperand)>>
    /\ GivenOperand \notin grantable

\* C3: a node whose op is one of the four markers is never rewritten by
\* either recognizer.
C3_MarkerNeverRewritten ==
    applied.node.op.class \in MarkerClasses => applied.result.kind # "replace"

\* C8: the recognizers never raise.
C8_RecognizersNeverRaise == applied.result.kind # "raise"

\* C9: on every successful recognition an integer-valued base draw gets the
\* discrete marker and every other element type the continuous marker.
C9_KindByElementType ==
    applied.result.kind = "replace" =>
        LET marker == applied.result.outputs[1].owner
            base == marker.inputs[1]
            discrete == IF AppliedMax THEN "MeasurableMaxDiscrete"
                        ELSE "MeasurableDiscreteMaxNeg"
            continuous == IF AppliedMax THEN "MeasurableMax"
                          ELSE "MeasurableMaxNeg"
        IN  IF base.owner.op.dtype \in IntegerDtypes
            THEN marker.op.class = discrete
            ELSE marker.op.class = continuous

\* C10: find_measurable_max never declines a non-marker Max node over a
\* univariate RandomVariable draw with rank-0 parameters, reduced over all
\* its dimensions, on a graph whose feature accepts the request; it returns
\* the outputs of exactly one newly built marker node.
C10_MaxComplete ==
    (/\ AppliedMax
     /\ applied.node.op.class = "Max"
     /\ IsIidUnivariateDraw(GivenOperand)
     /\ FullReduction(applied.node)
     /\ has_rv_map
     /\ GivenOperand \in grantable) =>
        /\ applied.result.kind = "replace"
        /\ Len(applied.result.outputs) = 1
        /\ applied.result.outputs[1].owner.op.class \in MarkerClasses
        /\ applied.result.outputs[1].owner.inputs = applied.node.inputs
        /\ applied.result.outputs[1].owner # applied.node

C10_Witness ==
    /\ AppliedMax
    /\ applied.node.op.class = "Max"
    /\ IsIidUnivariateDraw(GivenOperand)
    /\ Len(GivenOperand.owner.inputs) > 3
    /\ GivenOperand.ndim = MaxNdim
    /\ FullReduction(applied.node)
    /\ applied.result.kind = "replace"

\* C11: every marker node built by either recognizer has exactly one input,
\* the base RandomVariable draw itself (for find_measurable_max_neg the
\* variable under the negation, with no negation node between the marker and
\* the draw), and carries the axis set of the Max node it replaces.
C11_MarkerOverBaseDraw ==
    applied.result.kind = "replace" =>
        LET marker == applied.result.outputs[1].owner
            base == IF AppliedMaxNeg THEN find_negated_var(GivenOperand)
                    ELSE GivenOperand
        IN  /\ marker.op.class \in MarkerClasses
            /\ Len(marker.inputs) = 1
            /\ marker.inputs[1] = base
            /\ marker.inputs[1].owner.op.class = "RandomVariable"
            /\ set(marker.op.axis) = set(applied.node.op.axis)

C11_Witness ==
    /\ AppliedMaxNeg
    /\ applied.result.kind = "replace"
    /\ GivenOperand.owner.op.class = "Elemwise"
    /\ applied.result.outputs[1].owner.inputs[1].owner.op.class = "RandomVariable"
    /\ set(applied.node.op.axis) = 0..(MaxNdim - 1)
    /\ set(applied.result.outputs[1].owner.op.axis) = set(applied.node.op.axis)

\* the rule of a marker class by its kind: of the maximum or of the
\* minimum (the maximum of the negation), continuous or discrete
RuleOfKind(class) ==
    IF class = "MeasurableMax" THEN "max_logprob"
    ELSE IF class = "MeasurableMaxDiscrete" THEN "max_logprob_discrete"
    ELSE IF class = "MeasurableMaxNeg" THEN "max_neg_logprob"
    ELSE "discrete_max_neg_logprob"

\* C26: every marker class a recognizer emits is registered as measurable
\* and has exactly one density rule registered, so the dispatch on a marker
\* built by a rewrite finds a rule, the one of the marker's own kind.
C26_MarkerRuleRegistered ==
    applied.result.kind = "replace" =>
        LET class == applied.result.outputs[1].owner.op.class
        IN  /\ class \in MarkerClasses
            /\ IsMeasurableClass(class)
            /\ Cardinality({i \in 1..Len(LogprobRegistrations) :
                                LogprobRegistrations[i].cls = class}) = 1
            /\ Dispatch(class) = RuleOfKind(class)
            /\ AppliedMax => Dispatch(class) \in {"max_logprob", "max_logprob_discrete"}
            /\ AppliedMaxNeg =>
                  Dispatch(class) \in {"max_neg_logprob", "discrete_max_neg_logprob"}

C26_Witness ==
    /\ applied.result.kind = "replace"
    /\ AppliedMaxNeg
    /\ applied.result.outputs[1].owner.op.class = "MeasurableMaxNeg"
    /\ Dispatch("MeasurableMaxNeg") = "max_neg_logprob"

\* the feature accepts every measurable variable it may be asked about
AcceptsEveryMeasurable ==
    /\ has_rv_map
    /\ \A v \in Askable(GivenOperand) \cup Askable(node.inputs[1]) :
          (HasOwner(v) /\ IsMeasurableClass(v.owner.op.class)) => v \in grantable

\* neither rule returns a replacement for the node
NoRuleReplaces ==
    /\ find_measurable_max(Fgraph, node, hash_seed).kind # "replace"
    /\ find_measurable_max_neg(Fgraph, node, hash_seed).kind # "replace"

\* C27: with every measurable variable accepted, applying the two rules
\* again and again reaches a node that neither rule replaces, and a Max node
\* is replaced at most once: the node put in its place is not replaced.
C27_ReplacedAtMostOnce ==
    (applied.result.kind = "replace" /\ AcceptsEveryMeasurable) => NoRuleReplaces

\* C27 for the one marker class both guards cover
C27_MeasurableMaxIsFixed ==
    (applied.result.kind = "replace" /\ AcceptsEveryMeasurable
       /\ node.op.class = "MeasurableMax") => NoRuleReplaces

\* both rules return a replacement for nd
BothReplace(nd) ==
    /\ find_measurable_max(Fgraph, nd, hash_seed).kind = "replace"
    /\ find_measurable_max_neg(Fgraph, nd, hash_seed).kind = "replace"

\* C28: for every Max node, marker or not, and every answer of the feature,
\* at most one of find_measurable_max and find_measurable_max_neg returns a
\* replacement: the first needs the operand drawn by a RandomVariable, the
\* second needs it produced by an Elemwise negation.
C28_MutuallyExclusive ==
    /\ ~BothReplace(node)
    /\ applied.rule # "" => ~BothReplace(applied.node)
    /\ (AppliedMax /\ applied.result.kind = "replace") =>
          IsInstance(GivenOperand.owner.op, "RandomVariable")
    /\ (AppliedMaxNeg /\ applied.result.kind = "replace") =>
          /\ IsInstance(GivenOperand.owner.op, "Elemwise")
          /\ find_negated_var(GivenOperand) # NoneVar

C28_Witness ==
    /\ AppliedMaxNeg
    /\ applied.result.kind = "replace"
    /\ find_measurable_max(Fgraph, applied.node, hash_seed).kind = "none"
    /\ find_measurable_max(Fgraph, applied.node, hash_seed).requests # <<>>
    /\ find_measurable_max(Fgraph, applied.node,
                           hash_seed).requests[1].granted # <<>>

\* C29: when a recognizer returns no replacement, no request_measurable
\* call made during that application was accepted: the request comes after
\* every structural check.
C29_NoAbandonedRequest ==
    (applied.rule # "" /\ applied.result.kind # "replace") =>
        Granted(applied.result) = {}

\* C29 for find_measurable_max_neg alone
C29_MaxNegRequestsLast ==
    (AppliedMaxNeg /\ applied.result.kind # "replace") =>
        Granted(applied.result) = {}

StartDensity ==
    InitDensity /\ IdleRewrite /\ IdleWalk /\ IdleTransform /\ IdleInner

SpecDensity == StartDensity /\ [][NextDensity]_vars
(***************************************************************************)
(* Claims about the discrete density rules.                                *)
(***************************************************************************)
Larger(a, b) == IF a > b THEN a ELSE b

\* total weight of the ways to complete draws i..n, the maximum so far
\* being m, so that the maximum of all n draws is x: every tuple of
\* outcomes is enumerated, weighted by the product of its weights
RECURSIVE EnumMax(_, _, _, _, _)
RECURSIVE EnumMaxFrom(_, _, _, _, _, _)
EnumMaxFrom(d, n, x, i, m, j) ==
    IF j > Len(d.w) THEN 0
    ELSE d.w[j] * EnumMax(d, n, x, i + 1, Larger(m, d.lo + j - 1))
         + EnumMaxFrom(d, n, x, i, m, j + 1)
EnumMax(d, n, x, i, m) ==
    IF i > n THEN (IF m = x THEN 1 ELSE 0)
    ELSE EnumMaxFrom(d, n, x, i, m, 1)

\* numerator of P(max of n i.i.d. draws = x) over Total(w)^n
MaxMassNum(d, n, x) == EnumMax(d, n, x, 1, d.lo - 1)

EvaluatedMax == density.rule = "max_logprob_discrete"
EvaluatedMaxNeg == density.rule = "discrete_max_neg_logprob"

MassIsMaxProbability ==
    /\ MaxMassNum(dist, n_draws, value)
         = Pow(CdfNum(dist, value), n_draws) - Pow(CdfNum(dist, value - 1), n_draws)
    /\ density.logprob
         = Log(MaxMassNum(dist, n_draws, value), Pow(Total(dist.w), n_draws))
    /\ (dist = [lo |-> 0, w |-> <<1, 1, 1, 1, 1>>] /\ n_draws = 3 /\ value = 2)
           => density.logprob = [k |-> "fin", num |-> 19, den |-> 125]

\* C4: the mass produced by max_logprob_discrete at x is F(x)^n - F(x-1)^n
\* and equals the probability, by enumeration of all n-tuples of draws,
\* that the maximum is x; for the uniform on 0..4, n = 3, x = 2 it is
\* 19/125.
C4_DiscreteMaxMass == EvaluatedMax => MassIsMaxProbability

\* the part of C4 that the code keeps: values at or above the least outcome
C4_MassFromLeastOutcome ==
    (EvaluatedMax /\ value >= dist.lo) => MassIsMaxProbability

\* C5: when both log-CDF terms are -inf, max_logprob_discrete returns -inf
\* and never NaN.
C5_MaxBelowSupport ==
    (EvaluatedMax /\ density.logcdf = NInf /\ density.logcdf_prev = NInf)
        => density.logprob = NInf

\* C6: discrete_max_neg_logprob returns -inf, not NaN, whenever both
\* survival terms are -inf, and logdiffexp(n * logcdf_prev, n * logcdf) in
\* every other case, the terms being log(1 - F(-v)) and log(1 - F(-(v+1))).
C6_MaxNegBranches ==
    EvaluatedMaxNeg =>
        LET W == Total(dist.w)
            surv == Log(W - CdfNum(dist, -value), W)
            surv_prev == Log(W - CdfNum(dist, -(value + 1)), W)
        IN  /\ density.logcdf = surv
            /\ density.logcdf_prev = surv_prev
            /\ density.logprob =
                 IF surv = NInf /\ surv_prev = NInf THEN NInf
                 ELSE Plus(Times(n_draws, surv_prev),
                           Log1mexp(Minus(Times(n_draws, surv),
                                          Times(n_draws, surv_prev))))

C6_Witness ==
    /\ EvaluatedMaxNeg
    /\ density.logcdf = NInf
    /\ density.logcdf_prev = NInf
    /\ density.logprob = NInf
    /\ Len(dist.w) > 1
    /\ n_draws > 1

\* the distribution of -X for X distributed as d
Negated(d) ==
    [lo |-> -Hi(d), w |-> [i \in 1..Len(d.w) |-> d.w[Len(d.w) + 1 - i]]]

\* C12: the mass discrete_max_neg_logprob gives at v for the marker over X,
\* (1 - F(-v-1))^n - (1 - F(-v))^n, equals the mass max_logprob_discrete
\* gives at v for the distribution of -X, F'(v)^n - F'(v-1)^n, for every
\* distribution, every n >= 1 and every v.
C12_MinMaxDuality ==
    EvaluatedMaxNeg =>
        density.logprob
            = max_logprob_discrete(Negated(dist), n_draws, value).logprob

\* the part of C12 that the code keeps: values at or above the least outcome
\* of -X
C12_DualityFromLeastOutcome ==
    (EvaluatedMaxNeg /\ value >= -Hi(dist)) =>
        /\ density.logprob
             = max_logprob_discrete(Negated(dist), n_draws, value).logprob
        /\ density.logprob
             = LET W == Total(dist.w)
               IN  Log(Pow(W - CdfNum(dist, -value - 1), n_draws)
                         - Pow(W - CdfNum(dist, -value), n_draws),
                       Pow(W, n_draws))

\* exp(x) as a numerator over den, for a log-value x that is -inf or the
\* logarithm of a rational whose denominator divides den
MassNum(x, den) == IF x.k = "ninf" THEN 0 ELSE x.num * (den \div x.den)

IsMass(x, den) == x.k = "ninf" \/ (x.k = "fin" /\ den % x.den = 0)

\* the masses of max_logprob_discrete at lo .. k, summed, over den
RECURSIVE SumOfMaxMasses(_, _, _, _)
SumOfMaxMasses(d, n, k, den) ==
    IF k < d.lo THEN 0
    ELSE MassNum(max_logprob_discrete(d, n, k).logprob, den)
         + SumOfMaxMasses(d, n, k - 1, den)

\* C13: the masses F(k)^n - F(k-1)^n produced by max_logprob_discrete, summed
\* over all k of the support, are exactly 1, and each is non-negative (the
\* exponential of -inf or of a finite log-value, never NaN).
C13_MaxMassesSumToOne ==
    EvaluatedMax =>
        LET den == Pow(Total(dist.w), n_draws)
        IN  /\ \A k \in dist.lo..Hi(dist) :
                  /\ IsMass(max_logprob_discrete(dist, n_draws, k).logprob, den)
                  /\ MassNum(max_logprob_discrete(dist, n_draws, k).logprob, den) >= 0
            /\ value \in dist.lo..Hi(dist) =>
                  density = max_logprob_discrete(dist, n_draws, value)
            /\ SumOfMaxMasses(dist, n_draws, Hi(dist), den) = den

C13_Witness ==
    /\ EvaluatedMax
    /\ value \in (dist.lo + 1)..(Hi(dist) - 1)
    /\ Len(dist.w) = MaxSupport
    /\ n_draws = MaxDraws
    /\ density.logprob.k = "fin"
    /\ density.logprob.num < density.logprob.den
    /\ \E i, j \in 1..Len(dist.w) : dist.w[i] # dist.w[j]

\* C14: max_logprob returns (n - 1) * logcdf + logprob + log(n), log-CDF and
\* log-density of the base variable both taken at the observed value and n
\* being the folded size; max_neg_logprob returns the same with both taken at
\* the negated value and log(1 - exp(logcdf)) in place of logcdf.  Where the
\* terms are finite this is the density n * F^(n-1) * f, resp.
\* n * (1 - F)^(n-1) * f.
C14_ContinuousRuleShape ==
    LET n == n_draws
        W == Total(dist.w)
    IN  /\ density.rule = "max_logprob" =>
              /\ size_static
              /\ density.logcdf = LogCdf(dist, value)
              /\ density.logprob
                   = Plus(Plus(Times(n - 1, LogCdf(dist, value)),
                               LogProb(dist, value)),
                          Log(n, 1))
              /\ value \in dist.lo..Hi(dist) =>
                   density.logprob
                     = Log(n * Pow(CdfNum(dist, value), n - 1)
                             * dist.w[value - dist.lo + 1],
                           Pow(W, n))
        /\ density.rule = "max_neg_logprob" =>
              /\ size_static
              /\ density.logcdf = LogCdf(dist, -value)
              /\ density.logprob
                   = Plus(Plus(Times(n - 1, Log1mexp(LogCdf(dist, -value))),
                               LogProb(dist, -value)),
                          Log(n, 1))
              /\ -value \in dist.lo..(Hi(dist) - 1) =>
                   density.logprob
                     = Log(n * Pow(W - CdfNum(dist, -value), n - 1)
                             * dist.w[-value - dist.lo + 1],
                           Pow(W, n))

C14_Witness ==
    /\ density.rule = "max_neg_logprob"
    /\ n_draws = MaxDraws
    /\ value # 0
    /\ -value \in (dist.lo + 1)..(Hi(dist) - 1)
    /\ density.logprob.k = "fin"
    /\ density.logprob.num > 1

\* C15: when folding base_rv.size to a constant fails, a call of any of the
\* four density rules raises and produces no density; none of them goes on
\* with a symbolic n.
C15_FoldFailurePropagates ==
    [][~size_static =>
          /\ raised' \in {"max_logprob", "max_logprob_discrete",
                          "max_neg_logprob", "discrete_max_neg_logprob"}
          /\ density' = NotEvaluated]_vars

C15_Witness ==
    /\ ~size_static
    /\ raised = "max_neg_logprob"
    /\ density = NotEvaluated
    /\ n_draws > 1

StartWalk ==
    InitWalk /\ IdleRewrite /\ IdleDensity /\ IdleTransform /\ IdleInner

SpecWalk == StartWalk /\ [][NextWalk]_vars

(***************************************************************************)
(* Claims about check_potential_measurability.                             *)
(***************************************************************************)
RECURSIVE Descending(_)
Descending(S) ==
    IF S = {} THEN <<>>
    ELSE LET m == CHOOSE x \in S : \A y \in S : y <= x
         IN  <<m>> \o Descending(S \ {m})

InputsOf(v) == {graph[v].inputs[i] : i \in 1..Len(graph[v].inputs)}
Candidates == {walk_inputs[i] : i \in 1..Len(walk_inputs)}

Barrier(v) ==
    \/ graph[v].class = "None"
    \/ graph[v].class \in {"RandomVariable", "MeasurableMax"}
    \/ v \in valued_rvs

\* p is a backward path from a candidate input along owner.inputs (a
\* variable's inputs precede it, so a path is a descending sequence)
IsBackwardPath(p) ==
    /\ p # <<>>
    /\ p[1] \in Candidates
    /\ \A i \in 1..(Len(p) - 1) : p[i + 1] \in InputsOf(p[i])

\* an unvalued variable with a measurable producing op ends a backward
\* path from a candidate on which no earlier variable is a barrier
PotentiallyMeasurable ==
    \E S \in SUBSET (1..NumVars) :
        LET p == Descending(S)
        IN  /\ IsBackwardPath(p)
            /\ \A i \in 1..(Len(p) - 1) : ~Barrier(p[i])
            /\ graph[p[Len(p)]].class \in {"RandomVariable", "MeasurableMax"}
            /\ p[Len(p)] \notin valued_rvs

\* an unvalued measurable variable is an ancestor of a candidate
HiddenMeasurable ==
    \E S \in SUBSET (1..NumVars) :
        LET p == Descending(S)
        IN  /\ IsBackwardPath(p)
            /\ graph[p[Len(p)]].class \in {"RandomVariable", "MeasurableMax"}
            /\ p[Len(p)] \notin valued_rvs

\* C7: check_potential_measurability returns True if and only if an
\* unvalued variable with a measurable producing op is reachable from a
\* candidate input by a backward path on which every earlier variable has
\* a producing op, is not measurable and is not valued.
C7_ReachabilityIff == walked.done => (walked.result <=> PotentiallyMeasurable)

C7_Witness ==
    /\ walked.done
    /\ ~walked.result
    /\ HiddenMeasurable
    /\ \E v \in 1..NumVars : graph[v].class = "None" /\ v \in Candidates

\* the graph with the inputs of every node declared in ascending order
AscendingGraph ==
    [v \in 1..NumVars |->
        [class |-> graph[v].class, inputs |-> Ascending(InputsOf(v))]]

\* C25: the result of check_potential_measurability does not change when
\* the candidate inputs or the declared inputs of any node are permuted,
\* and the walk yields every variable at most once, each of them a
\* candidate or an ancestor of a candidate.
C25_OrderIndependent ==
    walked.done =>
        /\ walked.result
             = check_potential_measurability(AscendingGraph,
                   Ascending(Candidates), valued_rvs).result
        /\ \A i, j \in 1..Len(walked.yielded) :
              walked.yielded[i] = walked.yielded[j] => i = j
        /\ \A i \in 1..Len(walked.yielded) :
              \/ walked.yielded[i] \in Candidates
              \/ \E j \in 1..(i - 1) :
                    walked.yielded[i] \in InputsOf(walked.yielded[j])

C25_Witness ==
    /\ walked.done
    /\ walked.result
    /\ walk_inputs # Ascending(Candidates)
    /\ graph # AscendingGraph
    /\ Len(walked.yielded) = NumVars
    /\ ~IsUnvaluedMeasurable(graph, valued_rvs, walked.yielded[1])
    /\ walked.yielded
         # check_potential_measurability(AscendingGraph, Ascending(Candidates),
                                         valued_rvs).yielded

StartTransform ==
    InitTransform /\ IdleRewrite /\ IdleDensity /\ IdleWalk /\ IdleInner

SpecTransform == StartTransform /\ [][NextTransform]_vars

(***************************************************************************)
(* Claims about the transforms, stated on the last method call.            *)
(***************************************************************************)
IsChain == transform.class = "Chain"
ChainList == transform.transform_list

\* Tk.forward(...T2.forward(T1.forward(x))) for the first k children; an
\* inner call that raises leaves the outer calls unmade
RECURSIVE NestedForward(_, _)
NestedForward(k, x) ==
    IF k = 0 THEN x
    ELSE LET inner == NestedForward(k - 1, x)
         IN  IF Raises(inner) THEN inner
             ELSE transf_forward(ChainList[k], rv, inner)

\* Ti.backward(...Tk.backward(y)) for the children from the i-th on
RECURSIVE NestedBackward(_, _)
NestedBackward(i, y) ==
    IF i > Len(ChainList) THEN y
    ELSE LET inner == NestedBackward(i + 1, y)
         IN  IF Raises(inner) THEN inner
             ELSE transf_backward(ChainList[i], rv, inner)

\* C16: Chain.forward applies the children in listed order,
\* Tk.forward(...T1.forward(x)), Chain.backward in reverse order,
\* T1.backward(...Tk.backward(y)); with no children both return their
\* argument.
C16_ChainOrder ==
    IsChain =>
        /\ method = "forward" =>
              /\ returned = NestedForward(Len(ChainList), arg)
              /\ ChainList = <<>> => returned = arg
        /\ method = "backward" =>
              /\ returned = NestedBackward(1, arg)
              /\ ChainList = <<>> => returned = arg

C16_Witness ==
    /\ transform = Chain(<<sum_to_1, interval(<<Lower>>, <<Upper>>)>>)
    /\ method = "backward"
    /\ Representable(returned)
    /\ Len(arg.elems) = MaxLen
    /\ Len(returned.elems) = MaxLen + 1
    /\ returned # BackwardLoop(Reverse(ChainList), rv, arg)

\* every child gives back the value it is handed on the way of x through
\* the chain, resp. of y back through the chain
ChildrenRoundTripForward ==
    \A i \in 1..Len(ChainList) :
        LET x_i == NestedForward(i - 1, arg)
        IN  transf_backward(ChainList[i], rv,
                            transf_forward(ChainList[i], rv, x_i)) = x_i

ChildrenRoundTripBackward ==
    \A i \in 1..Len(ChainList) :
        LET y_i == NestedBackward(i + 1, arg)
        IN  transf_forward(ChainList[i], rv,
                           transf_backward(ChainList[i], rv, y_i)) = y_i

\* C17: a Chain whose children each round-trip on the values they meet
\* round-trips itself: backward(forward(x)) = x and forward(backward(y)) = y,
\* for every list length and every ordering of the children.
C17_ChainRoundTrip ==
    IsChain =>
        /\ (method = "forward" /\ ChildrenRoundTripForward) =>
              backward(transform, rv, returned) = arg
        /\ (method = "backward" /\ ChildrenRoundTripBackward) =>
              forward(transform, rv, returned) = arg

C17_Witness ==
    /\ IsChain
    /\ Len(ChainList) = MaxChain
    /\ \A i \in 1..Len(ChainList) :
          /\ ChainList[i].class \in {"SumTo1", "Interval", "Log"}
          /\ ChainList[i] # interval(<<>>, <<>>)
          /\ \A j \in 1..Len(ChainList) : i # j => ChainList[i] # ChainList[j]
    /\ method = "forward"
    /\ ChildrenRoundTripForward
    /\ Len(arg.elems) = MaxLen
    /\ Representable(returned)
    /\ backward(transform, rv, returned) = arg

\* the term of the i-th child: Ti.jacobian_det(rv, y_i), y_k = y and
\* y_(i-1) = Ti.backward(rv, y_i)
JacobianTerm(i) ==
    LET y_i == NestedBackward(i + 1, arg)
    IN  IF Raises(y_i) THEN y_i ELSE transf_jacobian_det(ChainList[i], rv, y_i)

\* the terms from the i-th on, added as they are
RECURSIVE SumOfTerms(_)
SumOfTerms(i) ==
    IF i > Len(ChainList) THEN Scalar(Rat(0, 1))
    ELSE AddTensors(JacobianTerm(i), SumOfTerms(i + 1))

\* the smallest rank among the value and the terms
LeastRank ==
    CHOOSE m \in {arg.ndim} \cup {JacobianTerm(i).ndim : i \in 1..Len(ChainList)} :
        /\ m <= arg.ndim
        /\ \A i \in 1..Len(ChainList) : m <= JacobianTerm(i).ndim

\* the terms from the i-th on, each of more than the least rank summed over
\* its last axis before it is added
RECURSIVE SumOfAlignedTerms(_)
SumOfAlignedTerms(i) ==
    IF i > Len(ChainList) THEN Scalar(Rat(0, 1))
    ELSE AddTensors(IF JacobianTerm(i).ndim > LeastRank
                    THEN SumLastAxis(JacobianTerm(i)) ELSE JacobianTerm(i),
                    SumOfAlignedTerms(i + 1))

\* C18: Chain.jacobian_det(rv, y) is the sum over the children of
\* Ti.jacobian_det(rv, y_i), where y_k = y and y_(i-1) = Ti.backward(rv, y_i);
\* for two children T1.jacobian_det(rv, T2.backward(rv, y))
\* + T2.jacobian_det(rv, y).
C18_ChainJacobianSum ==
    (IsChain /\ method = "jacobian_det") =>
        /\ returned = SumOfTerms(1)
        /\ Len(ChainList) = 2 =>
              returned
                = AddTensors(
                    transf_jacobian_det(ChainList[1], rv,
                                        transf_backward(ChainList[2], rv, arg)),
                    transf_jacobian_det(ChainList[2], rv, arg))

\* C18 as the code has it: the same sum, every term whose rank is above the
\* least rank among y and the terms being summed over its last axis first.
C18_ChainJacobianAlignedSum ==
    (IsChain /\ method = "jacobian_det") =>
        /\ returned = SumOfAlignedTerms(1)
        /\ (\A i \in 1..Len(ChainList) : JacobianTerm(i).ndim = arg.ndim) =>
              returned = SumOfTerms(1)

C18_Witness ==
    /\ transform = Chain(<<sum_to_1, interval(<<Lower>>, <<Upper>>)>>)
    /\ method = "jacobian_det"
    /\ Len(arg.elems) = MaxLen
    /\ JacobianTerm(1).ndim = 0
    /\ JacobianTerm(2).ndim = 1
    /\ \A i \in 1..MaxLen : JacobianTerm(2).elems[i].k = "fin"
    /\ returned = Scalar(SumSeq(JacobianTerm(2).elems))
    /\ returned # SumOfTerms(1)

\* the rank of the term of the i-th child as it is added: the sum over the
\* last axis takes one axis off a term of more than the least rank
SummandRank(i) ==
    IF JacobianTerm(i).ndim > LeastRank THEN JacobianTerm(i).ndim - 1
    ELSE JacobianTerm(i).ndim

\* C22: in Chain.jacobian_det, r being the least rank among the value and
\* the children's terms, every term is added with rank r, whatever the
\* difference between its rank and r, and the result has rank r.
C22_RankAlignment ==
    (IsChain /\ ChainList # <<>> /\ method = "jacobian_det") =>
        /\ \A i \in 1..Len(ChainList) : SummandRank(i) = LeastRank
        /\ returned.ndim = LeastRank

\* C22 where no term has a rank of more than r + 1
C22_RankAlignedByOneAxis ==
    (IsChain /\ ChainList # <<>> /\ method = "jacobian_det"
       /\ \A i \in 1..Len(ChainList) : JacobianTerm(i).ndim <= LeastRank + 1) =>
        /\ \A i \in 1..Len(ChainList) : SummandRank(i) = LeastRank
        /\ returned.ndim = LeastRank

IsDegenerate == LastBroadcastable(rv)

\* C19: on a degenerate variable (last axis of size 1) StickBreaking and
\* SumTo1 return the value unchanged from forward and from backward, with
\* the length of the input and never of length zero.
C19_DegeneratePassThrough ==
    (/\ IsDegenerate
     /\ transform \in {stick_breaking, sum_to_1}
     /\ method \in {"forward", "backward"}) =>
        /\ returned = arg
        /\ Len(returned.elems) = Len(arg.elems)
        /\ Len(returned.elems) # 0

\* the part of C19 that the code keeps: StickBreaking
C19_StickBreakingPassThrough ==
    (IsDegenerate /\ transform = stick_breaking
     /\ method \in {"forward", "backward"}) => returned = arg

\* x lies strictly inside the support the bounds of the Interval leave
InsideBounds(x) ==
    /\ transform.a # <<>> => (IsRat(x) /\ ~Leq(x, transform.a[1]))
    /\ transform.b # <<>> => (IsRat(x) /\ ~Leq(transform.b[1], x))

\* the maps C20 names, on one element
ExpectedForward(x) ==
    LET a == transform.a
        b == transform.b
    IN  IF a # <<>> /\ b # <<>>
        THEN aet_log(div(sub(x, a[1]), sub(b[1], x)))
        ELSE IF a # <<>> THEN aet_log(sub(x, a[1]))
        ELSE IF b # <<>> THEN aet_log(sub(b[1], x))
        ELSE x

ExpectedBackward(y) ==
    LET a == transform.a
        b == transform.b
    IN  IF a # <<>> /\ b # <<>>
        THEN add(a[1], mul(sub(b[1], a[1]), sigmoid(y)))
        ELSE IF a # <<>> THEN add(aet_exp(y), a[1])
        ELSE IF b # <<>> THEN sub(b[1], aet_exp(y))
        ELSE y

\* C20: Interval maps by the bounds present: with both, the sigmoid interval
\* map (forward the log-odds of the position of x between a and b, backward
\* a + (b - a) * sigmoid(y)); with only a, forward log(x - a) and backward
\* exp(y) + a; with only b, forward log(b - x) and backward b - exp(y); with
\* neither, the identity both ways.  In each configuration backward undoes
\* forward and forward undoes backward.
C20_IntervalBranches ==
    transform.class = "Interval" =>
        /\ (method = "forward"
             /\ \A i \in 1..Len(arg.elems) : InsideBounds(arg.elems[i])) =>
              /\ returned = Tensor(arg.ndim, [i \in DOMAIN arg.elems |->
                                                  ExpectedForward(arg.elems[i])])
              /\ backward(transform, rv, returned) = arg
        /\ (method = "backward"
             /\ \A i \in 1..Len(arg.elems) : arg.elems[i].k = "fin") =>
              /\ returned = Tensor(arg.ndim, [i \in DOMAIN arg.elems |->
                                                  ExpectedBackward(arg.elems[i])])
              /\ \A i \in 1..Len(arg.elems) : InsideBounds(returned.elems[i])
              /\ forward(transform, rv, returned) = arg
        /\ (transform.a = <<>> /\ transform.b = <<>>
             /\ method \in {"forward", "backward"}) => returned = arg

C20_Witness ==
    /\ transform = interval(<<>>, <<Upper>>)
    /\ method = "forward"
    /\ Len(arg.elems) = MaxLen
    /\ \A i \in 1..Len(arg.elems) : InsideBounds(arg.elems[i])
    /\ arg.elems[1] # arg.elems[MaxLen]
    /\ \A i \in 1..Len(arg.elems) :
          returned.elems[i].k = "fin" /\ returned.elems[i].num < returned.elems[i].den
    /\ backward(transform, rv, returned) = arg

\* the configurations named as having the identity for backward map
IdentityConfiguration ==
    \/ transform = interval(<<>>, <<>>)
    \/ transform = stick_breaking /\ IsDegenerate

\* C23: where the backward map of a transform is the identity (Interval with
\* neither bound, StickBreaking on a degenerate variable), jacobian_det
\* returns zero for every value.
C23_IdentityJacobianZero ==
    (IdentityConfiguration /\ method = "jacobian_det") =>
        /\ backward(transform, rv, arg) = arg
        /\ \A i \in 1..Len(returned.elems) : returned.elems[i] = Rat(0, 1)

\* C23 for the backward map alone: it is the identity in both configurations
C23_BackwardIsIdentity ==
    IdentityConfiguration => backward(transform, rv, arg) = arg

\* x is an angle of (-pi, pi]
InHalfOpenTurn(x) ==
    x = Rat(0, 1) \/ (x.k = "pi" /\ -x.den < x.num /\ x.num <= x.den)

\* the angle of (-pi, pi] that differs from x by a whole number of turns
Wrapped(x) ==
    IF x.k # "pi" THEN x
    ELSE LET turns == CHOOSE n \in (-Abs(x.num))..Abs(x.num) :
                          /\ -x.den < x.num - 2 * n * x.den
                          /\ x.num - 2 * n * x.den <= x.den
         IN  PiTimes(x.num - 2 * turns * x.den, x.den)

\* C24: for Circular, backward(forward(x)) = x for every x of (-pi, pi], and
\* forward(backward(y)) = y for every y, inside (-pi, pi] or not.
C24_CircularRoundTrip ==
    transform = circular =>
        /\ (method = "forward"
             /\ \A i \in 1..Len(arg.elems) : InHalfOpenTurn(arg.elems[i])) =>
              backward(transform, rv, returned) = arg
        /\ method = "backward" => forward(transform, rv, returned) = arg

\* C24 as the code has it: backward(forward(x)) = x for every x of
\* (-pi, pi]; forward(backward(y)) is y brought into (-pi, pi] by whole
\* turns, which is y itself exactly when y is of (-pi, pi].
C24_CircularRoundTripWrapped ==
    transform = circular =>
        /\ (method = "forward"
             /\ \A i \in 1..Len(arg.elems) : InHalfOpenTurn(arg.elems[i])) =>
              backward(transform, rv, returned) = arg
        /\ method = "backward" =>
              /\ forward(transform, rv, returned)
                    = Tensor(arg.ndim, [i \in DOMAIN arg.elems |->
                                           Wrapped(arg.elems[i])])
              /\ (forward(transform, rv, returned) = arg
                    <=> \A i \in 1..Len(arg.elems) : InHalfOpenTurn(arg.elems[i]))

C24_Witness ==
    /\ transform = circular
    /\ method = "backward"
    /\ Len(arg.elems) = MaxLen
    /\ arg.elems[1] = PiTimes(3, 2)
    /\ returned.elems[1] = PiTimes(-1, 2)
    /\ InHalfOpenTurn(arg.elems[MaxLen])
    /\ returned.elems[MaxLen] = arg.elems[MaxLen]

(***************************************************************************)
(* order.py as a whole: the recognizers and the density rules.             *)
(***************************************************************************)
StartOrder == StartRewrite \/ StartDensity

NextOrder == NextRewrite \/ NextDensity

SpecOrder == StartOrder /\ [][NextOrder]_vars

\* what a rule returns on nd in a process started with hash seed seed
RuleInProcess(rule, nd, seed) ==
    IF rule = "find_measurable_max" THEN find_measurable_max(Fgraph, nd, seed)
    ELSE find_measurable_max_neg(Fgraph, nd, seed)

\* the rule applied last returns an equal result on the same node, the
\* feature answering the same, in a process started with any other hash
\* seed: the order in which the set of axes is iterated does not reach the
\* marker
SameResultInEveryProcess ==
    applied.rule # "" =>
        \A seed \in HashSeeds :
            RuleInProcess(applied.rule, applied.node, seed) = applied.result

\* a density rule called again on the arguments of its last call returns
\* what it returned
SameDensityCallSameResult ==
    /\ (density.rule # "" /\ density'.rule = density.rule) =>
            density' = density
    /\ (raised # "" /\ raised' = raised) => density' = density

====
